---- MODULE Spec2Model ----
(***************************************************************************)
(* claude-wg: the persisted per-channel thread store (daemon/state.py),    *)
(* the Socket Mode listener (daemon/daemon.py) and the CLI commands        *)
(* (daemon/cli.py), together with the Slack channel they talk to.          *)
(*                                                                         *)
(* One managed channel is modelled.  `slack` is the channel as Slack holds *)
(* it: the sequence of messages posted so far, a message's ts being its    *)
(* position (Slack timestamps sort chronologically).  The listener is      *)
(* handed any posted message, in any order and any number of times.        *)
(* Timestamps of the local clock (posted_at, received_at, linked_at) are   *)
(* left out of the records.                                                *)
(***************************************************************************)
EXTENDS Integers, Sequences, FiniteSets, TLC

\* ------------------------------------------------------------------ bounds
\* Messages the channel can hold.
MaxTs == 3
\* Messages in the channel where a conflict is followed past an approval.
MaxConflictTs == 4
\* Feedback entries a thread can hold before the listener stops being handed
\* further replies of that thread.
MaxFeedback == 2
\* Messages per page of a paginated listing (the code asks for 200).
PageLimit == 2
\* Messages the channel can hold where a plan in two sections (an anchor and
\* two section messages) is followed by something.
MaxRunTs == 4

\* --------------------------------------------------------------- identities
MY_USER_ID == "U_ME"
U_BOB == "U_BOB"
\* The identity messages posted with the bot token carry.
U_BOT == "U_BOT"
\* JSON null / Python None (also what dict.get gives for a missing key).
None == "None"
Users == {MY_USER_ID, U_BOB}

\* The managed channel, another wg_ channel without local state, and a
\* channel that is not a working-group channel.
ThisChannel == "wg_a"
OtherChannel == "wg_b"
GeneralChannel == "general"
\* No session file / no ts.
NoChannel == "none"
NoTs == 0

\* Faulty variant of is_wg_channel: every named channel is taken.
is_wg_channel_Any(channel_name) == TRUE

is_wg_channel(channel_name) ==
    channel_name \in {ThisChannel, OtherChannel}

\* ---------------------------------------------------------------- plan text
\* A text is the sequence of its lines (str.split("\n")), so the empty string
\* is <<"">>.  Lines: two h1-h3 headings, body lines and the blank line.
Headings == {"# A", "## B", "### C"}
BlankLine == ""
\* Lines that str.strip() takes for whitespace as a whole, and what it takes
\* off the front of an indented line.
WhiteLines == {BlankLine, " "}
lstrip_line(line) == IF line = " y" THEN "y" ELSE line
JoinLines(lines) == IF lines = <<>> THEN <<BlankLine>> ELSE lines

RECURSIVE LStrip(_)
LStrip(lines) ==
    IF lines = <<>> THEN <<>>
    ELSE IF Head(lines) \in WhiteLines THEN LStrip(Tail(lines))
    ELSE <<lstrip_line(Head(lines))>> \o Tail(lines)

RECURSIVE RStrip(_)
RStrip(lines) ==
    IF lines = <<>> THEN <<>>
    ELSE IF lines[Len(lines)] \in WhiteLines
         THEN RStrip(SubSeq(lines, 1, Len(lines) - 1)) ELSE lines

\* "\n".join(body).strip()
JoinStrip(body) == JoinLines(RStrip(LStrip(body)))

IsHeading(line) == line \in Headings

\* parse_sections: the loop over the lines, then the final flush.
RECURSIVE parse_loop(_, _, _, _, _)
parse_loop(lines, i, sections, current_heading, current_body) ==
    IF i > Len(lines)
    THEN IF current_heading # BlankLine \/ current_body # <<>>
         THEN Append(sections, [heading |-> current_heading,
                                body |-> JoinStrip(current_body)])
         ELSE sections
    ELSE IF IsHeading(lines[i])
         THEN parse_loop(lines, i + 1,
                  IF current_heading # BlankLine \/ current_body # <<>>
                  THEN Append(sections, [heading |-> current_heading,
                                         body |-> JoinStrip(current_body)])
                  ELSE sections,
                  lines[i], <<>>)
         ELSE parse_loop(lines, i + 1, sections, current_heading,
                         Append(current_body, lines[i]))

parse_sections(plan) ==
    LET sections == parse_loop(plan, 1, <<>>, BlankLine, <<>>)
    IN IF sections # <<>> THEN sections
       ELSE <<[heading |-> BlankLine, body |-> plan]>>

\* md_to_mrkdwn, line by line: a heading of any level becomes a bold line.
md_line(line) ==
    CASE line = "# A" -> "*A*"
      [] line = "## B" -> "*B*"
      [] line = "### C" -> "*C*"
      [] line = "#### D" -> "*D*"
      [] OTHER -> line
md_to_mrkdwn(text) == [i \in 1..Len(text) |-> md_line(text[i])]

PlanHeader == <<"*Plan v1*", "*Plan v2*", "*Plan v3*", "*Plan v4*", "*Plan v5*",
                "*Plan v6*", "*Plan v7*", "*Plan v8*", "*Plan v9*">>
format_plan_message(plan, version) ==
    <<PlanHeader[version], BlankLine>> \o md_to_mrkdwn(plan)

format_section_message(heading, body) ==
    IF heading # BlankLine /\ body # <<BlankLine>>
    THEN <<md_line(heading), BlankLine>> \o md_to_mrkdwn(body)
    ELSE IF heading # BlankLine THEN <<md_line(heading)>>
    ELSE IF body # <<BlankLine>> THEN md_to_mrkdwn(body)
    ELSE <<BlankLine>>

format_plan_anchor_message(version, sections) ==
    <<PlanHeader[version], BlankLine, "*Sections:*">>
    \o [i \in 1..Len(sections) |->
          IF sections[i].heading # BlankLine THEN md_line(sections[i].heading)
          ELSE "Section"]
    \o <<BlankLine, "_Reply in each section below with your feedback._">>

\* The plans the operator posts, and the text of a message someone types into
\* the channel (one text per message).
PlanTexts == { <<"x">>, <<"# A", "x">>, <<"# A", "x", "", "## B", "y">> }
RevisionTexts == { <<"z">> }
TypedLine == <<"m1", "m2", "m3", "m4", "m5", "m6", "m7", "m8", "m9">>
TypedText(ts) == <<TypedLine[ts]>>

Files == {"shared.py", "x.py", "y.py"}
FileArgs == { {}, {"shared.py"} }
\* --files of two plans that touch one file in common.
OverlapFileArgs == { {}, {"x.py", "shared.py"}, {"y.py", "shared.py"} }

\* -------------------------------------------------------------------- state
VARIABLES
    slack,       \* the channel in Slack: the messages posted, ts = position
    hasState,    \* whether channels/<name>.json exists
    threads,     \* state["threads"]: thread ts -> thread record
    order,       \* the keys of state["threads"] in insertion order
    chanStatus,  \* state["status"]: "absent" until close writes "closed"
    session,     \* .claude/wg_session.json: [channel, thread_ts]
    last,        \* history variable: the last operation that saved the
                 \* channel state
    posted,      \* history variable: per thread record, how it began and
                 \* the texts of the owner revisions applied to it since
    excluded,    \* history variable: the pairs of threads whose files
                 \* overlapped when one of them was marked approved, by the
                 \* approve command or by a reaction
    created,     \* whether the channel exists in the Slack workspace
    outcome,     \* what the last command run did: its exit code, the error
                 \* it reported and the transport calls it issued
    inflight,    \* per writer (a command, an event handler) that is between
                 \* its load and its save: the record it loaded
    parsed       \* a plan text and what parse_sections returned for it

\* The variables that only the specifications of command runs, of
\* interleaved writers and of the parser follow.
run_vars == <<created, outcome, inflight, parsed>>

vars ==
    <<slack, hasState, threads, order, chanStatus, session, last, posted,
      excluded, created, outcome, inflight, parsed>>

\* A thread record.  A key the JSON record lacks reads as dict.get reads it:
\* owner/approved_by None, ts NoTs, approved FALSE, files {}, sections <<>>;
\* has_feedback and has_sections say whether the "feedback" and "sections"
\* keys are there.
NoSectionIndex == [s \in {} |-> 0]
EmptyThreads == [k \in {} |-> 0]

ThreadRecord(owner, ts, version, status, files, plan_versions) ==
    [owner |-> owner, ts |-> ts, version |-> version, status |-> status,
     approved |-> FALSE, approved_by |-> None, files |-> files,
     plan_versions |-> plan_versions,
     feedback |-> <<>>, has_feedback |-> TRUE,
     sections |-> <<>>, has_sections |-> FALSE,
     section_index |-> NoSectionIndex,
     latest_reply_ts |-> NoTs]

\* state["threads"][ts] = thread, keeping dict insertion order.
PutThread(ths, ts, thread) ==
    [k \in DOMAIN ths \cup {ts} |-> IF k = ts THEN thread ELSE ths[k]]
PutOrder(ord, ths, ts) ==
    IF ts \in DOMAIN ths THEN ord ELSE Append(ord, ts)

NoSession == [channel |-> NoChannel, thread_ts |-> NoTs]

\* seen: the length of the history a bootstrap run read; repeat: the run
\* came straight after another run that read the same history.
\* For an approval, repeat: the same thread was approved by the step before.
LastOp(op, key) ==
    [op |-> op, key |-> key, seen |-> 0, repeat |-> FALSE]

\* The pairs that thread k makes with the threads whose files overlap its own.
OverlappingPairs(ths, k) ==
    {{k, b} : b \in {b \in DOMAIN ths \ {k} :
                         ths[k].files \cap ths[b].files # {}}}

PutPosted(p, ts, origin, revs) ==
    [k \in DOMAIN p \cup {ts} |->
        IF k = ts THEN [origin |-> origin, revs |-> revs] ELSE p[k]]

\* No command has run.
NoOutcome ==
    [cmd |-> "none", code |-> 0, error |-> "none", calls |-> <<>>,
     listed |-> {}]

\* No writer is between its load and its save.
Writers == {"cli", "listener"}
Idle == [phase |-> "idle"]
NoWriters == [w \in Writers |-> Idle]

\* Nothing has been parsed.
NoParse == [plan |-> <<"">>, done |-> FALSE, sections |-> <<>>]

\* The store, the session link and the history variables before anything
\* has happened.
EmptyStore ==
    /\ slack = <<>>
    /\ hasState = FALSE
    /\ threads = EmptyThreads
    /\ order = <<>>
    /\ chanStatus = "absent"
    /\ session = NoSession
    /\ last = LastOp("init", NoTs)
    /\ posted = EmptyThreads
    /\ excluded = {}

\* The channel exists in the workspace (someone created it), nothing is
\* posted and nothing is stored locally.
Init ==
    /\ EmptyStore
    /\ created = TRUE
    /\ outcome = NoOutcome
    /\ inflight = NoWriters
    /\ parsed = NoParse

\* The ts of the top-level messages of the channel.
TopLevelTs(s) == {i \in 1..Len(s) : s[i].thread_ts = NoTs}

Message(user, thread_ts, bot, text) ==
    [user |-> user, thread_ts |-> thread_ts, bot |-> bot, text |-> text]

\* A message the operator's CLI posts: chat_postMessage with the bot token.
BotMessage(thread_ts, text) == Message(U_BOT, thread_ts, TRUE, text)

\* Someone types a message into the channel (top-level or in a thread), or
\* another integration posts one.  An archived channel takes no message.
SlackPost(user, thread_ts, bot) ==
    /\ chanStatus # "closed"
    /\ thread_ts \in {NoTs} \cup TopLevelTs(slack)
    /\ bot => user = U_BOT
    /\ ~bot => user \in Users
    /\ slack' = Append(slack,
          Message(user, thread_ts, bot, TypedText(Len(slack) + 1)))
    /\ UNCHANGED <<hasState, threads, order, chanStatus, session, posted>>
    /\ UNCHANGED <<last, excluded>>

\* ----------------------------------------------------------------- listener
\* Faulty variant of LiveKind: the operator's replies are the revisions.
LiveKind_ByOperator(thread, user) ==
    IF user = MY_USER_ID THEN "revision" ELSE "feedback"

\* daemon.py handle_message, the reply branch: the entry's type and the
\* version bump.
LiveKind(thread, user) ==
    IF user = thread.owner THEN "revision" ELSE "feedback"

\* Faulty variant of LiveReply: every reply bumps the version.
LiveReply_AlwaysBump(thread, user, ts, text) ==
    [thread EXCEPT
       !.version = @ + 1,
       !.feedback = Append(@, [user |-> user, ts |-> ts, text |-> text,
                               type |-> LiveKind(thread, user)])]

LiveReply(thread, user, ts, text) ==
    LET kind == LiveKind(thread, user)
        new_version == thread.version + 1
        entry == [user |-> user, ts |-> ts, text |-> text, type |-> kind]
        bumped == IF kind = "revision"
                  THEN [thread EXCEPT
                          !.version = new_version,
                          !.plan_versions = Append(@,
                              [version |-> new_version, text |-> text,
                               ts |-> NoTs])]
                  ELSE thread
    IN [bumped EXCEPT !.feedback = Append(@, entry)]

\* Faulty variant of Placeholder: the placeholder belongs to the operator.
Placeholder_Owned(thread_ts) ==
    ThreadRecord(MY_USER_ID, thread_ts, 1, "open", {}, <<>>)

\* The thread a reply lands in when its thread_ts is no key: a placeholder.
\* Faulty variant of Placeholder: the record does not name its thread.
Placeholder_NoTs(thread_ts) ==
    ThreadRecord(None, NoTs, 1, "open", {}, <<>>)

Placeholder(thread_ts) ==
    ThreadRecord(None, thread_ts, 1, "open", {}, <<>>)

\* The thread a top-level message creates (also when the key exists).
TopLevelThread(user, ts, text) ==
    ThreadRecord(user, ts, 1, "open", {},
                 <<[version |-> 1, text |-> text, ts |-> NoTs]>>)

\* Faulty variant of handle_message: a reply under a section's message is
\* appended to the feedback of that section.
handle_message_IntoSection(ts, subtype, channel_name) ==
    LET event == slack[ts]
        thread_ts == event.thread_ts
        entry == [user |-> event.user, ts |-> ts, text |-> event.text,
                  type |-> "feedback"]
    IN
    /\ ts \in 1..Len(slack)
    /\ ~event.bot /\ ~subtype
    /\ \E k \in DOMAIN threads :
          /\ threads[k].has_sections
          /\ thread_ts \in DOMAIN threads[k].section_index
          /\ Len(threads[k].sections[threads[k].section_index[thread_ts] + 1]
                    .feedback) < MaxFeedback
          /\ threads' = [threads EXCEPT
                ![k].sections[threads[k].section_index[thread_ts] + 1]
                    .feedback = Append(@, entry)]
    /\ last' = LastOp("msg_reply", thread_ts)
    /\ UNCHANGED <<slack, hasState, order, chanStatus, session, posted>>
    /\ UNCHANGED excluded

\* The listener is handed an event about message ts of the channel: the
\* message itself, or (subtype) its edit or deletion.  channel_name is what
\* resolve_channel_name gives, None when conversations_info fails.
handle_message(ts, subtype, channel_name) ==
    LET event == slack[ts]
        thread_ts == event.thread_ts
        known == thread_ts \in DOMAIN threads
        thread == IF known THEN threads[thread_ts] ELSE Placeholder(thread_ts)
    IN
    /\ ts \in 1..Len(slack)
    /\ UNCHANGED <<slack, chanStatus, session, excluded>>
    /\ IF event.bot \/ subtype
          \/ channel_name = None \/ ~is_wg_channel(channel_name)
       THEN UNCHANGED <<hasState, threads, order, posted, last>>
       ELSE IF thread_ts = NoTs
       THEN /\ threads' = PutThread(threads, ts,
                              TopLevelThread(event.user, ts, event.text))
            /\ order' = PutOrder(order, threads, ts)
            /\ hasState' = TRUE
            /\ posted' = PutPosted(posted, ts, "plan", <<>>)
            /\ last' = LastOp("msg_top", ts)
       ELSE IF ~thread.has_feedback
       THEN \* thread["feedback"] raises KeyError before the save
            UNCHANGED <<hasState, threads, order, posted, last>>
       ELSE /\ Len(thread.feedback) < MaxFeedback
            /\ threads' = PutThread(threads, thread_ts,
                              LiveReply(thread, event.user, ts, event.text))
            /\ order' = PutOrder(order, threads, thread_ts)
            /\ hasState' = TRUE
            /\ posted' =
                 LET p == IF known THEN posted[thread_ts]
                          ELSE [origin |-> "placeholder", revs |-> <<>>]
                 IN PutPosted(posted, thread_ts, p.origin,
                        IF event.user = thread.owner
                        THEN Append(p.revs, event.text) ELSE p.revs)
            /\ last' = LastOp("msg_reply", thread_ts)

\* daemon.py handle_reaction: the first thread, in dict order, that the
\* reacted-to message belongs to; approved only when the operator owns it.
ReactionMatches(thread_key, item_ts) ==
    \/ thread_key = item_ts
    \/ \E i \in 1..Len(threads[thread_key].feedback) :
          threads[thread_key].feedback[i].ts = item_ts

\* Faulty variants of ApproveThread: the status is left as it was; the
\* approver is not recorded.
ApproveThread_KeepStatus(thread, approver) ==
    [thread EXCEPT !.approved = TRUE, !.approved_by = approver]
ApproveThread_Anonymous(thread, approver) ==
    [thread EXCEPT !.approved = TRUE, !.status = "approved"]

ApproveThread(thread, approver) ==
    [thread EXCEPT !.approved = TRUE, !.approved_by = approver,
                   !.status = "approved"]

\* Faulty variant of handle_reaction: the matched thread is approved whoever
\* owns it.
handle_reaction_AnyOwner(reaction, item_ts, reactor, channel_name) ==
    LET hits == {i \in 1..Len(order) : ReactionMatches(order[i], item_ts)}
        first == order[CHOOSE i \in hits : \A j \in hits : i <= j]
    IN
    /\ item_ts \in 1..Len(slack)
    /\ UNCHANGED <<slack, hasState, order, chanStatus, session, posted>>
    /\ IF reaction # "white_check_mark"
          \/ channel_name = None \/ ~is_wg_channel(channel_name)
          \/ ~hasState
          \/ hits = {}
       THEN UNCHANGED <<threads, last, excluded>>
       ELSE /\ threads' = PutThread(threads, first,
                              ApproveThread(threads[first], reactor))
            /\ last' = LastOp("reaction_approved", first)
            /\ excluded' = excluded \cup OverlappingPairs(threads, first)

handle_reaction(reaction, item_ts, reactor, channel_name) ==
    LET hits == {i \in 1..Len(order) : ReactionMatches(order[i], item_ts)}
        first == order[CHOOSE i \in hits : \A j \in hits : i <= j]
    IN
    /\ item_ts \in 1..Len(slack)
    /\ UNCHANGED <<slack, hasState, order, chanStatus, session, posted>>
    /\ IF reaction # "white_check_mark"
          \/ channel_name = None \/ ~is_wg_channel(channel_name)
          \/ ~hasState
          \/ hits = {}
       THEN UNCHANGED <<threads, last, excluded>>
       ELSE IF threads[first].owner = MY_USER_ID
       THEN /\ threads' = PutThread(threads, first,
                              ApproveThread(threads[first], reactor))
            /\ last' = LastOp("reaction_approved", first)
            /\ excluded' = excluded \cup OverlappingPairs(threads, first)
       ELSE UNCHANGED <<threads, last, excluded>>

\* ---------------------------------------------------------------------- CLI
\* _post_plan: the messages it posts, the first getting ts base + 1, and the
\* thread entry it returns.  More than one section: an anchor message, then
\* one top-level message per section.
SectionStates(sections, base) ==
    [i \in 1..Len(sections) |->
        [heading |-> sections[i].heading, body |-> sections[i].body,
         ts |-> base + 1 + i, feedback |-> <<>>,
         approved |-> FALSE, approved_by |-> None]]

\* Faulty variant of SectionIndex: positions counted from 1.
SectionIndex_OneBased(sections, base) ==
    [section_ts \in {base + 1 + i : i \in 1..Len(sections)} |->
        section_ts - base - 1]

\* section_index[section_ts] = i, the 0-based position in sections.
SectionIndex(sections, base) ==
    [section_ts \in {base + 1 + i : i \in 1..Len(sections)} |->
        section_ts - base - 2]

post_plan_messages(plan, version) ==
    LET sections == parse_sections(plan)
    IN IF Len(sections) > 1
       THEN <<BotMessage(NoTs, format_plan_anchor_message(version, sections))>>
            \o [i \in 1..Len(sections) |->
                  BotMessage(NoTs, format_section_message(
                      sections[i].heading, sections[i].body))]
       ELSE <<BotMessage(NoTs, format_plan_message(plan, version))>>

\* Faulty variant of post_plan_entry: never a sections array.
post_plan_entry_Flat(plan, version, files, base) ==
    ThreadRecord(MY_USER_ID, base + 1, version, "awaiting_feedback", files,
                 <<[version |-> version, text |-> plan, ts |-> NoTs]>>)

post_plan_entry(plan, version, files, base) ==
    LET sections == parse_sections(plan)
        entry == ThreadRecord(MY_USER_ID, base + 1, version,
                     "awaiting_feedback", files,
                     <<[version |-> version, text |-> plan, ts |-> NoTs]>>)
    IN IF Len(sections) > 1
       THEN [entry EXCEPT !.sections = SectionStates(sections, base),
                          !.has_sections = TRUE,
                          !.section_index = SectionIndex(sections, base)]
       ELSE entry

\* cmd_plan: the channel must have local state; the post, then the save of
\* the channel state and of the session link.
cmd_plan(plan, files) ==
    LET msgs == post_plan_messages(plan, 1)
        thread_ts == Len(slack) + 1
    IN
    /\ hasState
    /\ chanStatus # "closed"
    /\ slack' = slack \o msgs
    /\ threads' = PutThread(threads, thread_ts,
                      post_plan_entry(plan, 1, files, Len(slack)))
    /\ order' = PutOrder(order, threads, thread_ts)
    /\ session' = [channel |-> ThisChannel, thread_ts |-> thread_ts]
    /\ posted' = PutPosted(posted, thread_ts, "plan", <<>>)
    /\ last' = LastOp("plan", thread_ts)
    /\ UNCHANGED <<hasState, chanStatus, excluded>>

\* _resolve_thread for the managed channel: the thread_ts given, or the one
\* thread the operator owns.  NoTs: the command exits.
OwnedThreads == {k \in DOMAIN threads : threads[k].owner = MY_USER_ID}

resolve_thread(thread_ts) ==
    IF ~hasState THEN NoTs
    ELSE IF thread_ts # NoTs
    THEN IF thread_ts \in DOMAIN threads THEN thread_ts ELSE NoTs
    ELSE IF Cardinality(OwnedThreads) = 1
    THEN CHOOSE k \in OwnedThreads : TRUE
    ELSE NoTs

\* The thread a command works on: --channel (with or without --thread-ts), or
\* the session link.  NoTs: the command exits before that.
TargetThread(by_channel, thread_ts) ==
    IF by_channel THEN resolve_thread(thread_ts)
    ELSE IF session.channel = ThisChannel /\ hasState
    THEN session.thread_ts
    ELSE NoTs

\* state["threads"].get(thread_ts, {}) for a thread_ts that is no key.
BareThread ==
    [ThreadRecord(None, NoTs, 1, "absent", {}, <<>>)
        EXCEPT !.has_feedback = FALSE]

\* Faulty variant of reply_thread: the revision replaces the version history.
reply_thread_Overwrite(thread, plan, files, reply_ts) ==
    [thread EXCEPT
       !.files = IF files # {} THEN files ELSE @,
       !.plan_versions = <<[version |-> thread.version + 1, text |-> plan,
                            ts |-> reply_ts]>>,
       !.version = thread.version + 1,
       !.latest_reply_ts = reply_ts,
       !.status = "awaiting_feedback"]

\* Faulty variant of reply_thread: the revision clears the approval.
reply_thread_Unapprove(thread, plan, files, reply_ts) ==
    [thread EXCEPT
       !.files = IF files # {} THEN files ELSE @,
       !.plan_versions = Append(@,
           [version |-> thread.version + 1, text |-> plan, ts |-> reply_ts]),
       !.version = thread.version + 1,
       !.latest_reply_ts = reply_ts,
       !.status = "awaiting_feedback",
       !.approved = FALSE,
       !.approved_by = None]

reply_thread(thread, plan, files, reply_ts) ==
    LET version == thread.version + 1
    IN [thread EXCEPT
          !.files = IF files # {} THEN files ELSE @,
          !.plan_versions = Append(@,
              [version |-> version, text |-> plan, ts |-> reply_ts]),
          !.version = version,
          !.latest_reply_ts = reply_ts,
          !.status = "awaiting_feedback"]

cmd_reply(by_channel, thread_arg, plan, files) ==
    LET thread_ts == TargetThread(by_channel, thread_arg)
        known == thread_ts \in DOMAIN threads
        thread == IF known THEN threads[thread_ts] ELSE BareThread
        reply_ts == Len(slack) + 1
    IN
    /\ thread_ts # NoTs
    /\ chanStatus # "closed"
    /\ slack' = Append(slack,
          BotMessage(thread_ts, format_plan_message(plan, thread.version + 1)))
    /\ threads' = PutThread(threads, thread_ts,
                      reply_thread(thread, plan, files, reply_ts))
    /\ order' = PutOrder(order, threads, thread_ts)
    /\ posted' =
         LET p == IF known THEN posted[thread_ts]
                  ELSE [origin |-> "reply", revs |-> <<>>]
         IN PutPosted(posted, thread_ts, p.origin, Append(p.revs, plan))
    /\ last' = LastOp("reply", thread_ts)
    /\ UNCHANGED <<hasState, chanStatus, session, excluded>>

\* cmd_approve: one section (section_ts given) or the whole plan.  The
\* session path refuses an archived channel; the reaction added afterwards
\* is best effort.
\* Faulty variant of approve_section: the thread is approved with its last
\* section.
approve_section_Cascade(thread, section_ts) ==
    LET idx == thread.section_index[section_ts] + 1
        done == \A i \in 1..Len(thread.sections) :
                    i = idx \/ thread.sections[i].approved
    IN [thread EXCEPT !.sections[idx].approved = TRUE,
                      !.sections[idx].approved_by = MY_USER_ID,
                      !.approved = IF done THEN TRUE ELSE @,
                      !.status = IF done THEN "approved" ELSE @]

approve_section(thread, section_ts) ==
    LET idx == thread.section_index[section_ts] + 1
    IN [thread EXCEPT !.sections[idx].approved = TRUE,
                      !.sections[idx].approved_by = MY_USER_ID]

cmd_approve(by_channel, thread_arg, section_ts) ==
    LET thread_ts == TargetThread(by_channel, thread_arg)
        thread == threads[thread_ts]
    IN
    /\ thread_ts # NoTs
    /\ by_channel \/ chanStatus # "closed"
    /\ thread_ts \in DOMAIN threads
    /\ IF section_ts # NoTs
       THEN /\ section_ts \in DOMAIN thread.section_index
            /\ threads' = PutThread(threads, thread_ts,
                              approve_section(thread, section_ts))
            /\ last' = LastOp("approve_section", thread_ts)
            /\ UNCHANGED excluded
       ELSE /\ threads' = PutThread(threads, thread_ts,
                              ApproveThread(thread, MY_USER_ID))
            /\ last' = [LastOp("approve", thread_ts) EXCEPT
                           !.repeat = (last.op = "approve"
                                       /\ last.key = thread_ts)]
            /\ excluded' =
                   excluded \cup OverlappingPairs(threads, thread_ts)
    /\ UNCHANGED <<slack, hasState, order, chanStatus, session, posted>>

\* cmd_link: save_session, no check of either argument.
cmd_link(channel_name, thread_ts) ==
    /\ \/ channel_name = ThisChannel /\ thread_ts \in TopLevelTs(slack)
       \/ channel_name = OtherChannel /\ thread_ts = 1
    /\ session' = [channel |-> channel_name, thread_ts |-> thread_ts]
    /\ UNCHANGED <<slack, hasState, threads, order, chanStatus, posted, last,
                   excluded>>

\* Faulty variant of cmd_close: the session file is removed whatever it
\* points to.
cmd_close_Unlink ==
    /\ hasState
    /\ chanStatus # "closed"
    /\ chanStatus' = "closed"
    /\ session' = NoSession
    /\ last' = LastOp("close", NoTs)
    /\ UNCHANGED <<slack, hasState, threads, order, posted, excluded>>

\* Faulty variant of cmd_close: the thread history goes with the channel.
cmd_close_Purge ==
    /\ hasState
    /\ chanStatus # "closed"
    /\ chanStatus' = "closed"
    /\ threads' = EmptyThreads
    /\ order' = <<>>
    /\ session' = IF session.channel = ThisChannel THEN NoSession ELSE session
    /\ last' = LastOp("close", NoTs)
    /\ UNCHANGED <<slack, hasState, posted, excluded>>

\* cmd_close: archive, flip the status, drop the session link if it points
\* to this channel.
cmd_close ==
    /\ hasState
    /\ chanStatus # "closed"
    /\ chanStatus' = "closed"
    /\ session' = IF session.channel = ThisChannel THEN NoSession ELSE session
    /\ last' = LastOp("close", NoTs)
    /\ UNCHANGED <<slack, hasState, threads, order, posted, excluded>>

\* ---------------------------------------------------------------- conflicts
\* sorted(overlap): file names in Python's string order.
FileRank == [f \in Files |->
                CASE f = "shared.py" -> 1 [] f = "x.py" -> 2 [] f = "y.py" -> 3]

RECURSIVE sorted(_)
sorted(files) ==
    IF files = {} THEN <<>>
    ELSE LET least == CHOOSE f \in files :
                          \A g \in files : FileRank[f] <= FileRank[g]
         IN <<least>> \o sorted(files \ {least})

\* The two loops of find_conflicts over open_threads.
RECURSIVE conflicts_from(_, _, _, _)
conflicts_from(ths, open_threads, i, j) ==
    IF i > Len(open_threads) THEN <<>>
    ELSE IF j > Len(open_threads)
    THEN conflicts_from(ths, open_threads, i + 1, i + 2)
    ELSE LET ts_a == open_threads[i]
             ts_b == open_threads[j]
             overlap == ths[ts_a].files \cap ths[ts_b].files
         IN (IF overlap # {}
             THEN <<[ts_a |-> ts_a, ts_b |-> ts_b, files |-> sorted(overlap)]>>
             ELSE <<>>)
            \o conflicts_from(ths, open_threads, i, j + 1)

\* Faulty variant of find_conflicts: approved threads are compared too.
find_conflicts_AllThreads(ths, ord) == conflicts_from(ths, ord, 1, 2)

\* find_conflicts: the threads in dict order, the approved ones left out.
find_conflicts(ths, ord) ==
    conflicts_from(ths, SelectSeq(ord, LAMBDA ts : ~ths[ts].approved), 1, 2)

\* ---------------------------------------------------------------- bootstrap
\* A paginated listing: pages of at most PageLimit messages, at least one
\* page.  A message is named by its ts.
RECURSIVE Paginate(_)
Paginate(msgs) ==
    IF Len(msgs) <= PageLimit THEN <<msgs>>
    ELSE <<SubSeq(msgs, 1, PageLimit)>>
         \o Paginate(SubSeq(msgs, PageLimit + 1, Len(msgs)))

Ascending(n) == [i \in 1..n |-> i]
Descending(n) == [i \in 1..n |-> n + 1 - i]

\* conversations.history: the top-level messages, newest first.
conversations_history(s) ==
    Paginate(SelectSeq(Descending(Len(s)), LAMBDA i : s[i].thread_ts = NoTs))

\* conversations.replies: the parent, then its replies, oldest first.
conversations_replies(s, ts) ==
    Paginate(<<ts>> \o SelectSeq(Ascending(Len(s)),
                                 LAMBDA i : s[i].thread_ts = ts))

\* all_messages.extend(page) over the pages.
RECURSIVE fetch_all(_, _)
fetch_all(pages, i) ==
    IF i > Len(pages) THEN <<>> ELSE pages[i] \o fetch_all(pages, i + 1)

\* Faulty variant of page_messages: the first message of every page is
\* taken for the parent.
page_messages_SkipEvery(msgs, first_page) == Tail(msgs)

\* msgs[1:] if first_page else msgs
page_messages(msgs, first_page) == IF first_page THEN Tail(msgs) ELSE msgs

\* thread_messages: msgs[1:] of the first page, every message of the others.
RECURSIVE fetch_replies(_, _)
fetch_replies(pages, i) ==
    IF i > Len(pages) THEN <<>>
    ELSE page_messages(pages[i], i = 1) \o fetch_replies(pages, i + 1)

\* The replay of one reply: user is the author of the top-level message.
ReplayKind(user, reply_user) ==
    IF reply_user = user THEN "revision" ELSE "feedback"

\* Faulty variant of ReplayReply: the entry is recorded, the version is not
\* bumped.
ReplayReply_NoBump(thread, user, reply_user, reply_ts, reply_text) ==
    [thread EXCEPT !.feedback = Append(@,
        [user |-> reply_user, ts |-> reply_ts, text |-> reply_text,
         type |-> ReplayKind(user, reply_user)])]

ReplayReply(thread, user, reply_user, reply_ts, reply_text) ==
    LET kind == ReplayKind(user, reply_user)
        new_version == thread.version + 1
        entry == [user |-> reply_user, ts |-> reply_ts, text |-> reply_text,
                  type |-> kind]
        bumped == IF kind = "revision"
                  THEN [thread EXCEPT
                          !.version = new_version,
                          !.plan_versions = Append(@,
                              [version |-> new_version, text |-> reply_text,
                               ts |-> NoTs])]
                  ELSE thread
    IN [bumped EXCEPT !.feedback = Append(@, entry)]

\* Faulty variant of counts_as_feedback: every replayed reply is counted.
counts_as_feedback_Always(user, reply_user) == TRUE

\* feedback_count += 1, in the branch of the replies that are not the
\* owner's.
counts_as_feedback(user, reply_user) ==
    ReplayKind(user, reply_user) = "feedback"

\* The loop over thread_messages: the thread and the feedback count.
RECURSIVE replay_replies(_, _, _, _, _, _)
replay_replies(s, thread, user, thread_messages, i, feedback_count) ==
    IF i > Len(thread_messages)
    THEN [thread |-> thread, feedback_count |-> feedback_count]
    ELSE LET reply == s[thread_messages[i]]
         IN replay_replies(s,
                ReplayReply(thread, user, reply.user, thread_messages[i],
                            reply.text),
                user, thread_messages, i + 1,
                IF counts_as_feedback(user, reply.user)
                THEN feedback_count + 1 ELSE feedback_count)

\* Faulty variants of already_known: no thread is skipped; a thread without
\* feedback is rebuilt from the history.
already_known_Never(ths, ts) == FALSE
already_known_Backfill(ths, ts) ==
    ts \in DOMAIN ths /\ ths[ts].feedback # <<>>

\* if ts in state["threads"]: continue
already_known(ths, ts) == ts \in DOMAIN ths

\* The loop over all_messages: a message whose ts is a key is skipped.
RECURSIVE bootstrap_loop(_, _, _, _, _, _, _)
bootstrap_loop(s, ths, ord, all_messages, i, thread_count, feedback_count) ==
    IF i > Len(all_messages)
    THEN [threads |-> ths, order |-> ord, thread_count |-> thread_count,
          feedback_count |-> feedback_count]
    ELSE LET ts == all_messages[i]
             msg == s[ts]
         IN IF already_known(ths, ts)
            THEN bootstrap_loop(s, ths, ord, all_messages, i + 1,
                                thread_count, feedback_count)
            ELSE LET r == replay_replies(s,
                              TopLevelThread(msg.user, ts, msg.text),
                              msg.user,
                              fetch_replies(conversations_replies(s, ts), 1),
                              1, feedback_count)
                 IN bootstrap_loop(s, PutThread(ths, ts, r.thread),
                        PutOrder(ord, ths, ts), all_messages, i + 1,
                        thread_count + 1, r.feedback_count)

bootstrap(s, ths, ord) ==
    bootstrap_loop(s, ths, ord, fetch_all(conversations_history(s), 1), 1, 0, 0)

\* History variable: the replies to ts written by the author of ts.
OwnerReplyTexts(s, ts) ==
    LET own == SelectSeq(Ascending(Len(s)),
                   LAMBDA i : s[i].thread_ts = ts /\ s[i].user = s[ts].user)
    IN [i \in 1..Len(own) |-> s[own[i]].text]

cmd_bootstrap ==
    LET r == bootstrap(slack, threads, order)
    IN
    /\ threads' = r.threads
    /\ order' = r.order
    /\ hasState' = TRUE
    /\ posted' = [k \in DOMAIN r.threads |->
                    IF k \in DOMAIN threads THEN posted[k]
                    ELSE [origin |-> "plan",
                          revs |-> OwnerReplyTexts(slack, k)]]
    /\ last' = [op |-> "bootstrap", key |-> NoTs, seen |-> Len(slack),
                repeat |-> last.op = "bootstrap" /\ last.seen = Len(slack)]
    /\ UNCHANGED <<slack, chanStatus, session, excluded>>

\* ---------------------------------------------------------------- transport
\* What one attempt of a call can meet: success, an error the API reports
\* (SlackApiError) or a connection fault (URLError, OSError).
AttemptOutcomes == {"ok", "api_error", "fault"}
\* What the first and the second attempt of a call would meet.
Behaviours == AttemptOutcomes \X AttemptOutcomes
Smooth == <<"ok", "ok">>

\* cli.py slack(): the loop over two attempts.
RECURSIVE slack_attempt(_, _)
slack_attempt(beh, attempt) ==
    IF beh[attempt + 1] = "ok"
    THEN [ok |-> TRUE, attempts |-> attempt + 1]
    ELSE IF beh[attempt + 1] = "api_error"
    THEN [ok |-> FALSE, attempts |-> attempt + 1]
    ELSE IF attempt = 0
    THEN slack_attempt(beh, 1)
    ELSE [ok |-> FALSE, attempts |-> attempt + 1]

\* Faulty variant of slack_call: an error the API reports is retried too.
slack_call_RetryAll(method, beh) ==
    IF beh[1] = "ok"
    THEN [method |-> method, beh |-> beh, attempts |-> 1, ok |-> TRUE]
    ELSE [method |-> method, beh |-> beh, attempts |-> 2,
          ok |-> beh[2] = "ok"]

\* One call of slack(method, ...): the attempts made and whether a response
\* came back (otherwise the process has exited with code 1).
slack_call(method, beh) ==
    LET r == slack_attempt(beh, 0)
    IN [method |-> method, beh |-> beh, attempts |-> r.attempts, ok |-> r.ok]

\* The transport during one command run: the call number `at` (0: none) meets
\* `beh`, every other call succeeds at once.
BehaviourAt(net, n) == IF n = net.at THEN net.beh ELSE Smooth

\* Slack refuses the call (name_taken, is_archived, already_archived): an
\* attempt that gets through meets an API error.
Refused(beh) ==
    <<IF beh[1] = "ok" THEN "api_error" ELSE beh[1],
      IF beh[2] = "ok" THEN "api_error" ELSE beh[2]>>

PlannedCall(method, refused) == [method |-> method, refused |-> refused]

\* The calls a run issues out of those it would issue if none failed: up to
\* and including the first that fails.  `done` calls came before.
RECURSIVE issue(_, _, _)
issue(planned, net, done) ==
    IF planned = <<>> THEN <<>>
    ELSE LET beh == BehaviourAt(net, done + 1)
             call == slack_call(Head(planned).method,
                         IF Head(planned).refused THEN Refused(beh) ELSE beh)
         IN IF call.ok
            THEN <<call>> \o issue(Tail(planned), net, done + 1)
            ELSE <<call>>

AllOk(calls, planned) ==
    /\ Len(calls) = Len(planned)
    /\ \A i \in 1..Len(calls) : calls[i].ok

\* ------------------------------------------------------------ command runs
\* A command from its arguments to its exit, the transport behaving as `net`
\* says.  What the command prints is kept as the kind of error and, for an
\* ambiguous target, the threads it lists.
Exit(cmd, code, error, calls, listed) ==
    [cmd |-> cmd, code |-> code, error |-> error, calls |-> calls,
     listed |-> listed]

store_vars ==
    <<hasState, threads, order, chanStatus, session, last, posted, excluded>>

\* sys.exit(1) before anything is posted or saved.
Refuse(cmd, error, listed) ==
    /\ outcome' = Exit(cmd, 1, error, <<>>, listed)
    /\ UNCHANGED <<slack, store_vars, created, inflight, parsed>>

\* No --plan-text and no --plan-file, as a plan argument.
NoText == <<>>

\* read_plan: the inline text unless it is missing or empty, else the file's
\* content; NoText: the command exits.
read_plan(plan_file, plan_text) ==
    IF plan_text # NoText /\ plan_text # <<BlankLine>> THEN plan_text
    ELSE IF plan_file # NoText THEN plan_file
    ELSE NoText

\* Faulty variant of Resolution: of several owned threads the oldest is
\* taken.
Resolution_TakeOldest(by_channel, thread_arg) ==
    LET found(ts) == [ts |-> ts, error |-> "none", listed |-> {}]
        failed(error, listed) ==
            [ts |-> NoTs, error |-> error, listed |-> listed]
    IN IF by_channel /\ hasState /\ thread_arg = NoTs /\ OwnedThreads # {}
       THEN found(CHOOSE k \in OwnedThreads : \A j \in OwnedThreads : k <= j)
       ELSE IF by_channel /\ hasState /\ thread_arg \in DOMAIN threads
       THEN found(thread_arg)
       ELSE IF ~by_channel /\ session.channel = ThisChannel /\ hasState
       THEN found(session.thread_ts)
       ELSE failed("not_found", {})

\* _resolve_thread, or the session link: the thread a command targets, or
\* the error it exits with.
Resolution(by_channel, thread_arg) ==
    LET found(ts) == [ts |-> ts, error |-> "none", listed |-> {}]
        failed(error, listed) ==
            [ts |-> NoTs, error |-> error, listed |-> listed]
    IN IF by_channel
       THEN IF ~hasState THEN failed("not_found", {})
            ELSE IF thread_arg # NoTs
            THEN IF thread_arg \in DOMAIN threads THEN found(thread_arg)
                 ELSE failed("not_found", {})
            ELSE IF OwnedThreads = {} THEN failed("not_found", {})
            ELSE IF Cardinality(OwnedThreads) = 1
            THEN found(CHOOSE k \in OwnedThreads : TRUE)
            ELSE failed("ambiguous", OwnedThreads)
       ELSE IF session = NoSession THEN failed("not_found", {})
            ELSE IF session.channel # ThisChannel \/ ~hasState
            THEN failed("not_found", {})
            ELSE found(session.thread_ts)

\* cmd_plan from its arguments to its exit.
plan_run(plan_file, plan_text, files, net) ==
    LET plan == read_plan(plan_file, plan_text)
        msgs == post_plan_messages(plan, 1)
        planned == [i \in 1..Len(msgs) |->
                       PlannedCall("chat_postMessage", chanStatus = "closed")]
        calls == issue(planned, net, 0)
    IN IF ~hasState THEN Refuse("plan", "not_found", {})
       ELSE IF plan = NoText THEN Refuse("plan", "validation", {})
       ELSE IF AllOk(calls, planned)
       THEN /\ cmd_plan(plan, files)
            /\ outcome' = Exit("plan", 0, "none", calls, {})
            /\ UNCHANGED <<created, inflight, parsed>>
       ELSE /\ slack' = slack \o SubSeq(msgs, 1, Len(calls) - 1)
            /\ outcome' = Exit("plan", 1, "transport", calls, {})
            /\ UNCHANGED <<store_vars, created, inflight, parsed>>

\* cmd_reply from its arguments to its exit.
reply_run(by_channel, thread_arg, plan_file, plan_text, files, net) ==
    LET target == Resolution(by_channel, thread_arg)
        plan == read_plan(plan_file, plan_text)
        planned == <<PlannedCall("chat_postMessage", chanStatus = "closed")>>
        calls == issue(planned, net, 0)
    IN IF target.error # "none"
       THEN Refuse("reply", target.error, target.listed)
       ELSE IF plan = NoText THEN Refuse("reply", "validation", {})
       ELSE IF AllOk(calls, planned)
       THEN /\ cmd_reply(by_channel, thread_arg, plan, files)
            /\ outcome' = Exit("reply", 0, "none", calls, {})
            /\ UNCHANGED <<created, inflight, parsed>>
       ELSE /\ outcome' = Exit("reply", 1, "transport", calls, {})
            /\ UNCHANGED <<slack, store_vars, created, inflight, parsed>>

\* Faulty variant of close_run: the status is flipped before the channel is
\* archived.
close_run_FlipFirst(net) ==
    LET planned ==
            <<PlannedCall("conversations_archive", chanStatus = "closed")>>
        calls == issue(planned, net, 0)
    IN IF ~hasState THEN Refuse("close", "not_found", {})
       ELSE IF AllOk(calls, planned)
       THEN /\ cmd_close
            /\ outcome' = Exit("close", 0, "none", calls, {})
            /\ UNCHANGED <<created, inflight, parsed>>
       ELSE /\ outcome' = Exit("close", 1, "transport", calls, {})
            /\ chanStatus' = "closed"
            /\ UNCHANGED <<slack, hasState, threads, order, session, last,
                           posted, excluded, created, inflight, parsed>>

\* cmd_close from its arguments to its exit.
close_run(net) ==
    LET planned ==
            <<PlannedCall("conversations_archive", chanStatus = "closed")>>
        calls == issue(planned, net, 0)
    IN IF ~hasState THEN Refuse("close", "not_found", {})
       ELSE IF AllOk(calls, planned)
       THEN /\ cmd_close
            /\ outcome' = Exit("close", 0, "none", calls, {})
            /\ UNCHANGED <<created, inflight, parsed>>
       ELSE /\ outcome' = Exit("close", 1, "transport", calls, {})
            /\ UNCHANGED <<slack, store_vars, created, inflight, parsed>>

\* cmd_approve from its arguments to its exit: the record is saved before
\* the reaction is added, and slack() exits the process when that call
\* fails (SystemExit passes through "except Exception").
approve_run(by_channel, thread_arg, section_ts, net) ==
    LET target == Resolution(by_channel, thread_arg)
        planned == <<PlannedCall("reactions_add", chanStatus = "closed")>>
        calls == issue(planned, net, 0)
    IN IF target.error # "none"
       THEN Refuse("approve", target.error, target.listed)
       ELSE IF ~by_channel /\ chanStatus = "closed"
       THEN Refuse("approve", "archived", {})
       ELSE IF target.ts \notin DOMAIN threads
       THEN Refuse("approve", "not_found", {})
       ELSE IF /\ section_ts # NoTs
               /\ section_ts \notin DOMAIN threads[target.ts].section_index
       THEN Refuse("approve", "not_found", {})
       ELSE /\ cmd_approve(by_channel, thread_arg, section_ts)
            /\ outcome' =
                 IF AllOk(calls, planned)
                 THEN Exit("approve", 0, "none", calls, {})
                 ELSE Exit("approve", 1, "transport", calls, {})
            /\ UNCHANGED <<created, inflight, parsed>>

\* cmd_sync from its arguments to its exit: it prints and saves nothing.
sync_run(by_channel, thread_arg, section_ts) ==
    LET target == Resolution(by_channel, thread_arg)
    IN IF target.error # "none"
       THEN Refuse("sync", target.error, target.listed)
       ELSE IF ~by_channel /\ chanStatus = "closed"
       THEN Refuse("sync", "archived", {})
       ELSE IF target.ts \notin DOMAIN threads
       THEN Refuse("sync", "not_found", {})
       ELSE IF /\ section_ts # NoTs
               /\ section_ts \notin DOMAIN threads[target.ts].section_index
       THEN Refuse("sync", "not_found", {})
       ELSE /\ outcome' = Exit("sync", 0, "none", <<>>, {})
            /\ UNCHANGED <<slack, store_vars, created, inflight, parsed>>

\* The onboarding calls of cmd_create: per collaborator conversations_open,
\* then chat_postMessage to the direct-message channel.
onboarding(collaborators) ==
    [i \in 1..(2 * Len(collaborators)) |->
        PlannedCall(IF i % 2 = 1 THEN "conversations_open"
                    ELSE "chat_postMessage_dm", FALSE)]

\* cmd_create from its arguments to its exit: channel, invitation and
\* auth_test first, then read_plan and the post, then the save of the
\* channel state and of the session link, then the onboarding messages.
create_run(plan_file, plan_text, collaborators, files, net) ==
    LET setup == <<PlannedCall("conversations_create", created),
                   PlannedCall("conversations_invite", FALSE),
                   PlannedCall("auth_test", FALSE)>>
        setup_calls == issue(setup, net, 0)
        plan == read_plan(plan_file, plan_text)
        msgs == post_plan_messages(plan, 1)
        posts == [i \in 1..Len(msgs) |->
                     PlannedCall("chat_postMessage", FALSE)]
        post_calls == issue(posts, net, Len(setup))
        dms == onboarding(collaborators)
        dm_calls == issue(dms, net, Len(setup) + Len(posts))
        thread_ts == Len(slack) + 1
    IN IF ~AllOk(setup_calls, setup)
       THEN /\ created' = (created \/ setup_calls[1].ok)
            /\ outcome' = Exit("create", 1, "transport", setup_calls, {})
            /\ UNCHANGED <<slack, store_vars, inflight, parsed>>
       ELSE IF plan = NoText
       THEN /\ created' = TRUE
            /\ outcome' = Exit("create", 1, "validation", setup_calls, {})
            /\ UNCHANGED <<slack, store_vars, inflight, parsed>>
       ELSE IF ~AllOk(post_calls, posts)
       THEN /\ created' = TRUE
            /\ slack' = slack \o SubSeq(msgs, 1, Len(post_calls) - 1)
            /\ outcome' = Exit("create", 1, "transport",
                               setup_calls \o post_calls, {})
            /\ UNCHANGED <<store_vars, inflight, parsed>>
       ELSE /\ created' = TRUE
            /\ slack' = slack \o msgs
            /\ hasState' = TRUE
            /\ threads' = PutThread(EmptyThreads, thread_ts,
                              post_plan_entry(plan, 1, files, Len(slack)))
            /\ order' = <<thread_ts>>
            /\ chanStatus' = "absent"
            /\ session' = [channel |-> ThisChannel, thread_ts |-> thread_ts]
            /\ posted' = PutPosted(EmptyThreads, thread_ts, "plan", <<>>)
            /\ last' = LastOp("create", thread_ts)
            /\ outcome' =
                 IF AllOk(dm_calls, dms)
                 THEN Exit("create", 0, "none",
                           setup_calls \o post_calls \o dm_calls, {})
                 ELSE Exit("create", 1, "transport",
                           setup_calls \o post_calls \o dm_calls, {})
            /\ UNCHANGED <<excluded, inflight, parsed>>

\* What an event can look like to the listener: <<subtype, channel_name>>.
EventShapes ==
    { <<FALSE, ThisChannel>>, <<TRUE, ThisChannel>>,
      <<FALSE, GeneralChannel>>, <<FALSE, None>> }
\* <<reaction, channel_name>>.
ReactionShapes ==
    { <<"white_check_mark", ThisChannel>>, <<"eyes", ThisChannel>>,
      <<"white_check_mark", GeneralChannel>>, <<"white_check_mark", None>> }
Reactors == {U_BOB}
\* --channel with or without --thread-ts, or neither (the session link).
Targets ==
    {<<TRUE, thread_ts>> : thread_ts \in 0..Len(slack)} \cup {<<FALSE, NoTs>>}

\* The steps, with their inputs; max is the number of messages the channel
\* holds at most.
Post(max) ==
    /\ Len(slack) < max
    /\ \E user \in Users \cup {U_BOT}, thread_ts \in 0..Len(slack),
          bot \in BOOLEAN :
          SlackPost(user, thread_ts, bot)
    /\ UNCHANGED run_vars

Deliver ==
    /\ \E ts \in 1..Len(slack), shape \in EventShapes :
        handle_message(ts, shape[1], shape[2])
    /\ UNCHANGED run_vars

React ==
    /\ \E shape \in ReactionShapes, item_ts \in 1..Len(slack),
          reactor \in Reactors :
          handle_reaction(shape[1], item_ts, reactor, shape[2])
    /\ UNCHANGED run_vars

Plan(max, plans, file_args) ==
    /\ \E plan \in plans, files \in file_args :
          /\ Len(slack) + Len(post_plan_messages(plan, 1)) <= max
          /\ cmd_plan(plan, files)
    /\ UNCHANGED run_vars

Reply(max, file_args) ==
    /\ Len(slack) < max
    /\ \E target \in Targets, plan \in RevisionTexts, files \in file_args :
          cmd_reply(target[1], target[2], plan, files)
    /\ UNCHANGED run_vars

Approve ==
    /\ \E target \in Targets, section_ts \in 0..Len(slack) :
          cmd_approve(target[1], target[2], section_ts)
    /\ UNCHANGED run_vars

ApproveWhole ==
    /\ \E target \in Targets : cmd_approve(target[1], target[2], NoTs)
    /\ UNCHANGED run_vars

Link ==
    /\ \E channel_name \in {ThisChannel, OtherChannel},
          thread_ts \in 1..Len(slack) \cup {1} :
          cmd_link(channel_name, thread_ts)
    /\ UNCHANGED run_vars

Close == cmd_close /\ UNCHANGED run_vars

Bootstrap == cmd_bootstrap /\ UNCHANGED run_vars

Next ==
    \/ Post(MaxTs)
    \/ Deliver
    \/ React
    \/ Plan(MaxTs, PlanTexts, FileArgs)
    \/ Reply(MaxTs, FileArgs)
    \/ Approve
    \/ Link
    \/ Close
    \/ Bootstrap

Spec == Init /\ [][Next]_vars

\* The channel, the listener and the bootstrap, without the other commands.
ListenerNext ==
    \/ Post(MaxTs)
    \/ Deliver
    \/ React
    \/ Bootstrap

ListenerSpec == Init /\ [][ListenerNext]_vars

\* Posting and revising plans: the channel, the listener, the bootstrap and
\* the plan and reply commands.
RevisionNext ==
    \/ Post(MaxTs)
    \/ Deliver
    \/ Plan(MaxTs, PlanTexts, FileArgs)
    \/ Reply(MaxTs, FileArgs)
    \/ Bootstrap

RevisionSpec == Init /\ [][RevisionNext]_vars

\* Reviewing: the channel, the listener with its reactions, and the reply
\* command.
ReviewNext ==
    \/ Post(MaxTs)
    \/ Deliver
    \/ React
    \/ Reply(MaxTs, FileArgs)

ReviewSpec == Init /\ [][ReviewNext]_vars

\* Approving: plans posted, revised and approved from the command line,
\* reactions to them, and the bootstrap.
ApprovalNext ==
    \/ Plan(MaxTs, PlanTexts, FileArgs)
    \/ Reply(MaxTs, FileArgs)
    \/ Approve
    \/ React
    \/ Bootstrap

ApprovalSpec == Init /\ [][ApprovalNext]_vars

\* Conflicts: single-message plans with overlapping files, posted, revised
\* and approved (by command or reaction), and the bootstrap.
ConflictNext ==
    \/ Plan(MaxTs, {<<"x">>}, OverlapFileArgs)
    \/ Reply(MaxTs, OverlapFileArgs)
    \/ ApproveWhole
    \/ React
    \/ Bootstrap

ConflictSpec == Init /\ [][ConflictNext]_vars

\* Conflicts with the listener: the owner's own top-level messages and their
\* events (delivered any number of times), plans and revisions with
\* overlapping files, and approvals by command or reaction.
RedeliveryNext ==
    \/ /\ Len(slack) < MaxConflictTs
       /\ SlackPost(MY_USER_ID, NoTs, FALSE)
       /\ UNCHANGED run_vars
    \/ /\ \E ts \in 1..Len(slack) : handle_message(ts, FALSE, ThisChannel)
       /\ UNCHANGED run_vars
    \/ Plan(MaxConflictTs, {<<"x">>}, OverlapFileArgs \ {{}})
    \/ Reply(MaxConflictTs, OverlapFileArgs \ {{}})
    \/ ApproveWhole
    \/ React

RedeliverySpec == Init /\ [][RedeliveryNext]_vars

\* ------------------------------------------------- command runs: the steps
\* Calls per command run that the transport can be made to fail at.
MaxCalls == 6
\* Archiving: plans posted and reviewed while the channel is open, the close
\* command, and what can still happen afterwards: events of
\* earlier messages delivered again, reactions, approvals by command, and
\* the bootstrap.
ArchiveNext ==
    \/ Plan(MaxTs, {<<"x">>}, {{}})
    \/ /\ chanStatus # "closed"
       /\ Len(slack) < MaxTs
       /\ \E thread_ts \in 0..Len(slack) : SlackPost(U_BOB, thread_ts, FALSE)
       /\ UNCHANGED run_vars
    \/ /\ \E ts \in 1..Len(slack) : handle_message(ts, FALSE, ThisChannel)
       /\ UNCHANGED run_vars
    \/ React
    \/ ApproveWhole
    \/ Close
    \/ Bootstrap

ArchiveSpec == Init /\ [][ArchiveNext]_vars

\* A step of another process: no command run has just exited.
NoRun ==
    /\ outcome' = NoOutcome
    /\ UNCHANGED <<created, inflight, parsed>>

\* cmd_bootstrap from its start to its exit, with the counts it prints.
BootstrapRun ==
    LET r == bootstrap(slack, threads, order)
    IN /\ cmd_bootstrap
       /\ outcome' = [cmd |-> "bootstrap", code |-> 0, error |-> "none",
                      calls |-> <<>>, listed |-> {},
                      thread_count |-> r.thread_count,
                      feedback_count |-> r.feedback_count]
       /\ UNCHANGED <<created, inflight, parsed>>

\* Listening: messages of people and of the bot, and their events in every
\* shape the listener can receive.
EventNext ==
    \/ Post(MaxTs)
    \/ Deliver

EventSpec == Init /\ [][EventNext]_vars

\* The store under every operation that writes a thread record: the
\* operator's plans and revisions, a collaborator's plans and replies with
\* their events (delivered any number of times), approvals by command and by
\* reaction, and the bootstrap.
StoreNext ==
    \/ /\ Len(slack) < MaxTs
       /\ \E thread_ts \in 0..Len(slack) : SlackPost(U_BOB, thread_ts, FALSE)
       /\ UNCHANGED run_vars
    \/ /\ \E ts \in 1..Len(slack) : handle_message(ts, FALSE, ThisChannel)
       /\ UNCHANGED run_vars
    \/ /\ \E item_ts \in 1..Len(slack) :
             handle_reaction("white_check_mark", item_ts, U_BOB, ThisChannel)
       /\ UNCHANGED run_vars
    \/ Plan(MaxTs, {<<"x">>}, {{}})
    \/ Reply(MaxTs, {{}})
    \/ ApproveWhole
    \/ Bootstrap

StoreSpec == Init /\ [][StoreNext]_vars

\* Sectioned plans: the operator joins and posts a plan in two sections, a
\* collaborator replies under the anchor or under a section, the listener
\* records the replies, and the plan is revised, approved section by section
\* or as a whole, and bootstrapped again.
SectionNext ==
    \/ /\ Len(slack) < MaxRunTs
       /\ \E thread_ts \in 1..Len(slack) : SlackPost(U_BOB, thread_ts, FALSE)
       /\ UNCHANGED run_vars
    \/ /\ \E ts \in 1..Len(slack) : handle_message(ts, FALSE, ThisChannel)
       /\ UNCHANGED run_vars
    \/ Plan(MaxRunTs, {<<"# A", "x", "", "## B", "y">>}, {{}})
    \/ Reply(MaxRunTs, {{}})
    \/ Approve
    \/ Bootstrap

SectionSpec == Init /\ [][SectionNext]_vars

\* Joining: the channel, the listener's message handler and the bootstrap.
\* outcome is the exit of the run that was the last step.
JoinNext ==
    \/ /\ Len(slack) < MaxTs
       /\ \E user \in Users, thread_ts \in 0..Len(slack) :
             SlackPost(user, thread_ts, FALSE)
       /\ NoRun
    \/ /\ \E ts \in 1..Len(slack) : handle_message(ts, FALSE, ThisChannel)
       /\ NoRun
    \/ BootstrapRun

JoinSpec == Init /\ [][JoinNext]_vars

\* Joining a channel nobody listened to: people post and reply, the
\* bootstrap rebuilds the threads from the channel's history.
ReplayNext ==
    \/ /\ Len(slack) < MaxRunTs
       /\ \E user \in Users, thread_ts \in 0..Len(slack) :
             SlackPost(user, thread_ts, FALSE)
       /\ NoRun
    \/ BootstrapRun

ReplaySpec == Init /\ [][ReplayNext]_vars

\* ------------------------------------------------- two writers of one record
\* A writer between load_channel_state and save_channel_state holds the
\* record it loaded; once it has saved, what it wrote is kept with it.
Loaded(op, key, ts) ==
    [phase |-> "loaded", op |-> op, key |-> key, ts |-> ts,
     threads |-> threads, order |-> order]
Saved(w, ts) == [phase |-> "saved", op |-> w.op, key |-> w.key, ts |-> ts]

\* cmd_reply and cmd_approve with --channel and --thread-ts, up to the load
\* and the checks on the loaded record.
cli_load(op, thread_ts) ==
    /\ inflight["cli"].phase # "loaded"
    /\ hasState
    /\ thread_ts \in DOMAIN threads
    /\ inflight' = [inflight EXCEPT !["cli"] = Loaded(op, thread_ts, NoTs)]
    /\ UNCHANGED <<slack, store_vars, created, outcome, parsed>>

\* Faulty variant of cli_save: the record is loaded again before the save.
cli_save_Reload ==
    LET w == inflight["cli"]
        thread == threads[w.key]
        reply_ts == Len(slack) + 1
    IN
    /\ w.phase = "loaded"
    /\ IF w.op = "reply"
       THEN /\ Len(slack) < MaxTs
            /\ slack' = Append(slack, BotMessage(w.key,
                            format_plan_message(<<"z">>, thread.version + 1)))
            /\ threads' = PutThread(threads, w.key,
                              reply_thread(thread, <<"z">>, {}, reply_ts))
            /\ inflight' = [inflight EXCEPT !["cli"] = Saved(w, reply_ts)]
       ELSE /\ slack' = slack
            /\ threads' = PutThread(threads, w.key,
                              ApproveThread(thread, MY_USER_ID))
            /\ inflight' = [inflight EXCEPT !["cli"] = Saved(w, NoTs)]
    /\ last' = LastOp(w.op, w.key)
    /\ UNCHANGED <<hasState, order, chanStatus, session, posted, excluded,
                   created, outcome, parsed>>

\* The rest of cmd_reply (the post, the new version) or of cmd_approve, and
\* the save of the record that was loaded.
cli_save ==
    LET w == inflight["cli"]
        thread == w.threads[w.key]
        reply_ts == Len(slack) + 1
    IN
    /\ w.phase = "loaded"
    /\ IF w.op = "reply"
       THEN /\ Len(slack) < MaxTs
            /\ slack' = Append(slack, BotMessage(w.key,
                            format_plan_message(<<"z">>, thread.version + 1)))
            /\ threads' = PutThread(w.threads, w.key,
                              reply_thread(thread, <<"z">>, {}, reply_ts))
            /\ inflight' = [inflight EXCEPT !["cli"] = Saved(w, reply_ts)]
       ELSE /\ slack' = slack
            /\ threads' = PutThread(w.threads, w.key,
                              ApproveThread(thread, MY_USER_ID))
            /\ inflight' = [inflight EXCEPT !["cli"] = Saved(w, NoTs)]
    /\ order' = w.order
    /\ last' = LastOp(w.op, w.key)
    /\ UNCHANGED <<hasState, chanStatus, session, posted, excluded,
                   created, outcome, parsed>>

\* The message whose event the listener receives next: events arrive once,
\* in the order of the messages, and those of the bot's messages are dropped.
NextEvent ==
    LET w == inflight["listener"]
        handled == IF w.phase = "idle" THEN NoTs ELSE w.ts
    IN {ts \in 1..Len(slack) :
          /\ ts > handled
          /\ ~slack[ts].bot
          /\ \A earlier \in (handled + 1)..(ts - 1) : slack[earlier].bot}

\* handle_message for the event of a collaborator's message, up to
\* ensure_channel_state.
listener_load(ts) ==
    /\ inflight["listener"].phase # "loaded"
    /\ ts \in NextEvent
    /\ inflight' = [inflight EXCEPT !["listener"] =
           Loaded("msg", IF slack[ts].thread_ts = NoTs THEN ts
                         ELSE slack[ts].thread_ts, ts)]
    /\ UNCHANGED <<slack, store_vars, created, outcome, parsed>>

\* The rest of handle_message: the thread or the feedback entry put into the
\* record that was loaded, and the save.
listener_save ==
    LET w == inflight["listener"]
        event == slack[w.ts]
        thread == IF w.key \in DOMAIN w.threads THEN w.threads[w.key]
                  ELSE Placeholder(w.key)
    IN
    /\ w.phase = "loaded"
    /\ IF event.thread_ts = NoTs
       THEN /\ threads' = PutThread(w.threads, w.ts,
                              TopLevelThread(event.user, w.ts, event.text))
            /\ last' = LastOp("msg_top", w.ts)
       ELSE /\ thread.has_feedback
            /\ Len(thread.feedback) < MaxFeedback
            /\ threads' = PutThread(w.threads, w.key,
                              LiveReply(thread, event.user, w.ts, event.text))
            /\ last' = LastOp("msg_reply", w.key)
    /\ order' = PutOrder(w.order, w.threads, w.key)
    /\ hasState' = TRUE
    /\ inflight' = [inflight EXCEPT !["listener"] = Saved(w, w.ts)]
    /\ UNCHANGED <<slack, chanStatus, session, posted, excluded,
                   created, outcome, parsed>>

\* A collaborator posts plans and replies; the listener and a reply or
\* approve command each load the record and save it, in any interleaving.
RaceNext ==
    \/ /\ Len(slack) < MaxTs
       /\ \E thread_ts \in 0..Len(slack) : SlackPost(U_BOB, thread_ts, FALSE)
       /\ UNCHANGED run_vars
    \/ \E op \in {"reply", "approve"}, thread_ts \in 1..Len(slack) :
          cli_load(op, thread_ts)
    \/ cli_save
    \/ \E ts \in NextEvent : listener_load(ts)
    \/ listener_save

RaceSpec == Init /\ [][RaceNext]_vars

\* ----------------------------------------------------------- parsing a plan
\* Lines a plan text is made of: blank, whitespace only, plain, indented,
\* headings of levels 1 to 3 and a heading of level 4.
MaxLines == 3
ParseLines == {BlankLine, " ", "x", " y", "#### D"} \cup Headings

RECURSIVE TextsOf(_)
TextsOf(n) ==
    IF n = 0 THEN {<<>>}
    ELSE {Append(text, line) : text \in TextsOf(n - 1), line \in ParseLines}

\* plan.split("\n") of every text of at most MaxLines lines; the empty
\* string is the text of one blank line.
ParseInputs == UNION {TextsOf(n) : n \in 1..MaxLines}

ParseInit ==
    /\ EmptyStore
    /\ created = TRUE
    /\ outcome = NoOutcome
    /\ inflight = NoWriters
    /\ parsed \in {[plan |-> plan, done |-> FALSE, sections |-> <<>>] :
                      plan \in ParseInputs}

Parse ==
    /\ ~parsed.done
    /\ parsed' = [parsed EXCEPT !.done = TRUE,
                                !.sections = parse_sections(parsed.plan)]
    /\ UNCHANGED <<slack, store_vars, created, outcome, inflight>>

ParseNext == Parse

ParseSpec == ParseInit /\ [][ParseNext]_vars

\* What a failing call meets: an API error, which ends the call whatever a
\* second attempt would have met, or a connection fault followed by any
\* outcome of the second attempt.
Faults ==
    {<<"api_error", "ok">>} \cup {<<"fault", second>> : second \in AttemptOutcomes}
Nets ==
    {[at |-> 0, beh |-> Smooth]}
    \cup {[at |-> n, beh |-> beh] : n \in 1..MaxCalls, beh \in Faults}

\* <<plan_file, plan_text>>: neither, an empty inline text, an inline text,
\* a file with two sections.
PlanArgs ==
    { <<NoText, NoText>>, <<NoText, <<BlankLine>>>>, <<NoText, <<"x">>>>,
      <<<<"# A", "x", "## B", "y">>, NoText>> }

\* The messages a run posts if no call fails.
PostsOf(plan_arg) ==
    LET plan == read_plan(plan_arg[1], plan_arg[2])
    IN IF plan = NoText THEN 0 ELSE Len(post_plan_messages(plan, 1))

\* The behaviours that differ for a run that issues at most `calls` calls.
UpTo(nets, calls) == {net \in nets : net.at <= calls}

CreateRun(max, nets) ==
    \E plan_arg \in PlanArgs, collaborators \in {<<>>, <<U_BOB>>} :
      \E net \in UpTo(nets, 3 + PostsOf(plan_arg) + 2 * Len(collaborators)) :
        /\ Len(slack) + PostsOf(plan_arg) <= max
        /\ create_run(plan_arg[1], plan_arg[2], collaborators, {}, net)

PlanRun(max, nets) ==
    \E plan_arg \in PlanArgs :
      \E net \in UpTo(nets, PostsOf(plan_arg)) :
        /\ Len(slack) + PostsOf(plan_arg) <= max
        /\ plan_run(plan_arg[1], plan_arg[2], {}, net)

ReplyRun(max, nets) ==
    \E target \in Targets, net \in UpTo(nets, 1),
       plan_arg \in {<<NoText, NoText>>, <<NoText, <<"z">>>>} :
        /\ Len(slack) < max
        /\ reply_run(target[1], target[2], plan_arg[1], plan_arg[2], {}, net)

CloseRun(nets) == \E net \in UpTo(nets, 1) : close_run(net)

ApproveRun(nets) ==
    \E target \in Targets, section_ts \in 0..Len(slack),
       net \in UpTo(nets, 1) :
        approve_run(target[1], target[2], section_ts, net)

SyncRun ==
    \E target \in Targets, section_ts \in 0..Len(slack) :
        sync_run(target[1], target[2], section_ts)

\* cmd_link from its arguments to its exit: it always succeeds.
LinkRun ==
    /\ \E channel_name \in {ThisChannel, OtherChannel},
          thread_ts \in 1..Len(slack) \cup {1} :
          cmd_link(channel_name, thread_ts)
    /\ outcome' = Exit("link", 0, "none", <<>>, {})
    /\ UNCHANGED <<created, inflight, parsed>>

\* The channel does not exist yet and nothing is stored locally.
RunInit ==
    /\ EmptyStore
    /\ created = FALSE
    /\ outcome = NoOutcome
    /\ inflight = NoWriters
    /\ parsed = NoParse

\* The runs that post or archive, over a transport that can fail.
FailureNext ==
    \/ CreateRun(MaxRunTs, Nets)
    \/ PlanRun(MaxRunTs, Nets)
    \/ ReplyRun(MaxRunTs, Nets)
    \/ CloseRun(Nets)

FailureSpec == RunInit /\ [][FailureNext]_vars

\* The runs with a best-effort call after the save, over a transport that can
\* fail.
BestEffortNext ==
    \/ CreateRun(MaxTs, Nets)
    \/ ApproveRun(Nets)

BestEffortSpec == RunInit /\ [][BestEffortNext]_vars

\* Runs that name the channel and no thread, in a channel where the operator
\* and a collaborator post plans and the listener records the collaborator's.
UnnamedRun ==
    \/ /\ Len(slack) < MaxTs
       /\ reply_run(TRUE, NoTs, NoText, <<"z">>, {}, [at |-> 0, beh |-> Smooth])
    \/ approve_run(TRUE, NoTs, NoTs, [at |-> 0, beh |-> Smooth])
    \/ sync_run(TRUE, NoTs, NoTs)

ResolveNext ==
    \/ PlanRun(MaxTs, {[at |-> 0, beh |-> Smooth]})
    \/ UnnamedRun
    \/ /\ Len(slack) < MaxTs
       /\ SlackPost(U_BOB, NoTs, FALSE)
       /\ NoRun
    \/ /\ \E ts \in 1..Len(slack) : handle_message(ts, FALSE, ThisChannel)
       /\ NoRun

ResolveSpec == Init /\ [][ResolveNext]_vars

\* Command runs over a transport that does not fail, the session link set by
\* hand, and the listener recording what a collaborator posts.  outcome is
\* the exit of the run that was the last step.
LookupNext ==
    \/ CreateRun(MaxTs, {[at |-> 0, beh |-> Smooth]})
    \/ PlanRun(MaxTs, {[at |-> 0, beh |-> Smooth]})
    \/ ReplyRun(MaxTs, {[at |-> 0, beh |-> Smooth]})
    \/ ApproveRun({[at |-> 0, beh |-> Smooth]})
    \/ SyncRun
    \/ LinkRun
    \/ /\ created
       /\ Len(slack) < MaxTs
       /\ SlackPost(U_BOB, NoTs, FALSE)
       /\ NoRun
    \/ /\ \E ts \in 1..Len(slack) : handle_message(ts, FALSE, ThisChannel)
       /\ NoRun

LookupSpec == RunInit /\ [][LookupNext]_vars

\* The session link across a close: the channel is created with its plan,
\* further plans are posted, the working directory is linked to this or to
\* another channel, and the channel is closed over a transport that can
\* fail.
UnlinkNext ==
    \/ CreateRun(MaxTs, {[at |-> 0, beh |-> Smooth]})
    \/ PlanRun(MaxTs, {[at |-> 0, beh |-> Smooth]})
    \/ LinkRun
    \/ CloseRun(Nets)

UnlinkSpec == RunInit /\ [][UnlinkNext]_vars

\* ------------------------------------------------------------------ helpers
IsPrefix(a, b) == Len(a) <= Len(b) /\ SubSeq(b, 1, Len(a)) = a

\* handle_message as a function of the threads map: message ts of history s
\* delivered as an event of the managed channel.
LiveDelivery(ths, s, ts) ==
    LET event == s[ts]
        thread == IF event.thread_ts \in DOMAIN ths THEN ths[event.thread_ts]
                  ELSE Placeholder(event.thread_ts)
    IN IF event.bot THEN ths
       ELSE IF event.thread_ts = NoTs
       THEN PutThread(ths, ts, TopLevelThread(event.user, ts, event.text))
       ELSE PutThread(ths, event.thread_ts,
                      LiveReply(thread, event.user, ts, event.text))

\* Every message of s delivered once, in chronological order, to a listener
\* that starts without state.
RECURSIVE LiveChronological(_, _, _)
LiveChronological(s, i, ths) ==
    IF i > Len(s) THEN ths
    ELSE LiveChronological(s, i + 1, LiveDelivery(ths, s, i))

\* The plan a thread began with, and its sections as parse_sections gives them.
SectionedPlan == <<"# A", "x", "", "## B", "y">>

\* ------------------------------------------------------------------- claims
\* C1: a bootstrap run that follows another run straight away, over the same
\* channel history, changes nothing: no thread is added, no feedback or
\* plan_versions entry is appended, no version is bumped, and the run counts
\* no thread and no reply.
BootstrapIdempotent ==
    [][(cmd_bootstrap /\ last.op = "bootstrap" /\ last.seen = Len(slack)) =>
          /\ threads' = threads
          /\ order' = order
          /\ bootstrap(slack, threads, order).thread_count = 0
          /\ bootstrap(slack, threads, order).feedback_count = 0]_vars

\* A second run has happened on a store that holds a replayed reply.
BootstrapRepeated ==
    /\ last.op = "bootstrap"
    /\ last.repeat
    /\ \E k \in DOMAIN threads : threads[k].feedback # <<>>

\* C2: bootstrap leaves the record of every thread identifier that was in the
\* store before the run identical, also when the history holds replies of
\* that thread the record lacks; it only adds identifiers that were absent.
BootstrapKeepsExisting ==
    [][cmd_bootstrap =>
          /\ \A k \in DOMAIN threads :
                k \in DOMAIN threads' /\ threads'[k] = threads[k]
          /\ \A k \in DOMAIN threads' \ DOMAIN threads :
                k \in TopLevelTs(slack)]_vars

\* A run has read a history that holds a reply of an existing thread which
\* the thread's record still lacks.
BootstrapSkippedPartialThread ==
    /\ last.op = "bootstrap"
    /\ last.seen = Len(slack)
    /\ \E k \in DOMAIN threads, i \in 1..Len(slack) :
          /\ slack[i].thread_ts = k
          /\ \A j \in 1..Len(threads[k].feedback) :
                threads[k].feedback[j].ts # i

\* C3: every entry recorded for a reply, by the listener or by the replay of
\* bootstrap, has type "revision" exactly when its author is the thread's
\* owner and "feedback" otherwise; under an owner of None it is "feedback".
ReplyKindByOwner ==
    \A k \in DOMAIN threads :
        \A i \in 1..Len(threads[k].feedback) :
            LET entry == threads[k].feedback[i]
            IN /\ entry.type \in {"revision", "feedback"}
               /\ entry.type = "revision" <=> entry.user = threads[k].owner
               /\ threads[k].owner = None => entry.type = "feedback"

\* A thread holds a revision and a feedback entry.
BothKindsRecorded ==
    \E k \in DOMAIN threads :
        \E i, j \in 1..Len(threads[k].feedback) :
            /\ threads[k].feedback[i].type = "revision"
            /\ threads[k].feedback[j].type = "feedback"

\* C4: for every thread of the store and every replier, the listener's reply
\* handling and the replay of bootstrap give the same entry and the same
\* thread: the version one higher and one more plan_versions entry for a
\* revision, both untouched for feedback.
SameKindAndVersionChange ==
    \A k \in DOMAIN threads, replier \in Users \cup {U_BOT} :
        threads[k].has_feedback =>
            LET thread == threads[k]
                ts == Len(slack) + 1
                live == LiveReply(thread, replier, ts, TypedText(ts))
                replay == ReplayReply(thread, thread.owner, replier, ts,
                                      TypedText(ts))
                kind == replay.feedback[Len(replay.feedback)].type
            IN /\ live = replay
               /\ kind = LiveKind(thread, replier)
               /\ kind = "revision" =>
                     /\ replay.version = thread.version + 1
                     /\ Len(replay.plan_versions) =
                           Len(thread.plan_versions) + 1
               /\ kind = "feedback" =>
                     /\ replay.version = thread.version
                     /\ replay.plan_versions = thread.plan_versions

\* The replay has recorded a revision: a thread at version 2 after a run.
ReplayRecordedRevision ==
    /\ last.op = "bootstrap"
    /\ \E k \in DOMAIN threads :
          /\ threads[k].version = 2
          /\ Len(threads[k].plan_versions) = 2
          /\ threads[k].feedback # <<>>
          /\ threads[k].feedback[1].type = "revision"

\* C5: bootstrap on an empty store gives the threads map the listener gives
\* when the messages of the history are delivered once each in chronological
\* order.
BootstrapEqualsLive ==
    bootstrap(slack, EmptyThreads, <<>>).threads
        = LiveChronological(slack, 1, EmptyThreads)

\* C6: after N owner revisions of a thread, its version is N and plan_versions
\* has N entries.
VersionEqualsRevisionCount ==
    \A k \in DOMAIN threads :
        (posted[k].origin = "plan" /\ Len(posted[k].revs) >= 1) =>
            /\ threads[k].version = Len(posted[k].revs)
            /\ Len(threads[k].plan_versions) = Len(posted[k].revs)

\* C6, as the code has it: after N owner revisions applied to a thread record
\* (a run of the reply command, or an owner's reply handled by the listener or
\* replayed by bootstrap), its version is N + 1; plan_versions holds the plan
\* the record began with, if it began with one, and then the N revisions in
\* the order they were applied, numbered 2 .. N + 1.
VersionCountsRevisions ==
    \A k \in DOMAIN threads :
        LET n == Len(posted[k].revs)
            base == IF posted[k].origin = "plan" THEN 1 ELSE 0
        IN /\ threads[k].version = n + 1
           /\ Len(threads[k].plan_versions) = n + base
           /\ base = 1 => threads[k].plan_versions[1].version = 1
           /\ \A i \in 1..n :
                 /\ threads[k].plan_versions[base + i].text = posted[k].revs[i]
                 /\ threads[k].plan_versions[base + i].version = i + 1

\* A posted plan has been revised twice.
TwoRevisions ==
    \E k \in DOMAIN threads :
        /\ posted[k].origin = "plan"
        /\ Len(posted[k].revs) = 2
        /\ threads[k].owner = MY_USER_ID
        /\ threads[k].latest_reply_ts # NoTs

\* C7: the version of a thread identifier never decreases, whatever the
\* operation.
VersionNeverDecreases ==
    [][\A k \in DOMAIN threads :
          k \in DOMAIN threads' => threads'[k].version >= threads[k].version]_vars

\* C8: plan_versions and feedback of every thread are append-only: after any
\* step each has its previous value as a prefix.
AppendOnly ==
    [][\A k \in DOMAIN threads :
          /\ k \in DOMAIN threads'
          /\ IsPrefix(threads[k].plan_versions, threads'[k].plan_versions)
          /\ IsPrefix(threads[k].feedback, threads'[k].feedback)]_vars

RevisionReopens ==
    LET thread == threads[last.key]
    IN (\/ last.op = "reply"
        \/ /\ last.op = "msg_reply"
           /\ thread.feedback[Len(thread.feedback)].type = "revision")
       => thread.status = "awaiting_feedback"

\* The last step recorded a revision of thread k: a run of the reply command,
\* or the listener handling a reply of the owner.
RevisedBy(l, ths, k) ==
    /\ l.key = k
    /\ k \in DOMAIN ths
    /\ \/ l.op = "reply"
       \/ /\ l.op = "msg_reply"
          /\ ths[k].feedback # <<>>
          /\ ths[k].feedback[Len(ths[k].feedback)].type = "revision"

\* C11: an owner revision of an existing thread, by the reply command or by
\* the listener handling the owner's reply, leaves approved and approved_by
\* as they were.
RevisionKeepsApproval ==
    [][\A k \in DOMAIN threads :
          (RevisedBy(last', threads', k)
           /\ threads'[k].version = threads[k].version + 1) =>
              /\ threads'[k].approved = threads[k].approved
              /\ threads'[k].approved_by = threads[k].approved_by]_vars

\* The listener has recorded the owner's revision of an approved thread, and
\* the approval is still there.
ApprovedThreadRevised ==
    /\ last.op = "msg_reply"
    /\ RevisedBy(last, threads, last.key)
    /\ threads[last.key].approved
    /\ threads[last.key].approved_by = U_BOB
    /\ threads[last.key].version = 2

\* C12: the listener handling a reply to a known thread by someone other than
\* its owner appends one entry of type "feedback" to the thread's feedback and
\* changes nothing else of the thread (version, plan_versions, status,
\* approved, approved_by, files) nor any other thread.
FeedbackOnlyAppends ==
    [][\A ts \in 1..Len(slack) :
          LET event == slack[ts]
              k == event.thread_ts
          IN (/\ handle_message(ts, FALSE, ThisChannel)
              /\ ~event.bot
              /\ k \in DOMAIN threads
              /\ threads[k].has_feedback
              /\ event.user # threads[k].owner) =>
                 threads' = [threads EXCEPT ![k].feedback = Append(@,
                     [user |-> event.user, ts |-> ts, text |-> event.text,
                      type |-> "feedback"])]]_vars

\* Feedback has been recorded on a thread that has an owner, a revision and
\* files.
FeedbackOnRevisedThread ==
    /\ last.op = "msg_reply"
    /\ last.key \in DOMAIN threads
    /\ LET thread == threads[last.key]
       IN /\ thread.owner \in Users
          /\ thread.version = 2
          /\ thread.files # {}
          /\ thread.feedback # <<>>
          /\ thread.feedback[Len(thread.feedback)].type = "feedback"

\* The threads a reaction on message item_ts is about: the thread keyed by
\* it, and the threads with a feedback entry of that ts.
ThreadsOfMessage(ths, item_ts) ==
    {k \in DOMAIN ths :
        \/ k = item_ts
        \/ \E i \in 1..Len(ths[k].feedback) : ths[k].feedback[i].ts = item_ts}

\* C13: a white_check_mark reaction on a message that is a thread's key or
\* the ts of one of its feedback entries, the thread being owned by the
\* operator, sets the thread's approved to TRUE, approved_by to the reactor
\* and status to "approved", changes nothing else, and saves the record.
ReactionApproves ==
    [][\A item_ts \in 1..Len(slack), reactor \in Reactors :
          (/\ handle_reaction("white_check_mark", item_ts, reactor,
                              ThisChannel)
           /\ hasState) =>
              \A k \in ThreadsOfMessage(threads, item_ts) :
                  threads[k].owner = MY_USER_ID =>
                      /\ threads' = [threads EXCEPT
                             ![k].approved = TRUE,
                             ![k].approved_by = reactor,
                             ![k].status = "approved"]
                      /\ last'.op = "reaction_approved"
                      /\ last'.key = k]_vars

\* A reaction has approved a thread of the operator that holds feedback.
ReactionApprovedThread ==
    /\ last.op = "reaction_approved"
    /\ threads[last.key].owner = MY_USER_ID
    /\ threads[last.key].approved
    /\ threads[last.key].approved_by = U_BOB
    /\ threads[last.key].status = "approved"
    /\ threads[last.key].feedback # <<>>

\* C14: handle_reaction changes nothing and saves nothing when the reaction
\* is not white_check_mark, the channel is unresolved or no wg_ channel,
\* there is no local state, no thread matches the message, or the matched
\* thread is not owned by the operator.
ReactionIgnored ==
    [][\/ UNCHANGED vars
       \/ \A shape \in
                ReactionShapes \cup {<<"white_check_mark", OtherChannel>>},
             item_ts \in 1..Len(slack), reactor \in Reactors :
              (\/ shape[1] # "white_check_mark"
               \/ shape[2] \notin {ThisChannel, OtherChannel}
               \/ ~hasState
               \/ ThreadsOfMessage(threads, item_ts) = {}
               \/ \A k \in ThreadsOfMessage(threads, item_ts) :
                     threads[k].owner # MY_USER_ID) =>
                  ~handle_reaction(shape[1], item_ts, reactor, shape[2])]_vars

\* A message of a thread that someone else owns can be reacted to, next to a
\* thread of the operator that a reaction has approved.
ForeignThreadNextToApproved ==
    /\ hasState
    /\ \E k \in DOMAIN threads :
          /\ threads[k].owner = U_BOB
          /\ ~threads[k].approved
          /\ threads[k].status = "open"
    /\ \E k \in DOMAIN threads :
          /\ threads[k].owner = MY_USER_ID
          /\ threads[k].approved

\* C15: the approve command without a section identifier sets the target
\* thread's approved to TRUE, approved_by to the operator and status to
\* "approved", whatever the thread was before, and changes nothing else; run
\* again on the same thread it leaves the store as it is.
ApproveCommandApproves ==
    [][\A target \in Targets :
          cmd_approve(target[1], target[2], NoTs) =>
              LET k == TargetThread(target[1], target[2])
              IN /\ threads' = [threads EXCEPT
                        ![k].approved = TRUE,
                        ![k].approved_by = MY_USER_ID,
                        ![k].status = "approved"]
                 /\ last'.op = "approve" /\ last'.key = k
                 /\ last'.repeat => threads' = threads]_vars

\* The approve command has run twice in a row on a thread.
ApprovedTwice ==
    /\ last.op = "approve"
    /\ last.repeat
    /\ threads[last.key].approved
    /\ threads[last.key].approved_by = MY_USER_ID
    /\ threads[last.key].status = "approved"

\* C16: the approve command with a section identifier sets approved and
\* approved_by of that section and nothing else (the thread's approved,
\* approved_by and status and the other sections stay); the approve command
\* without one and an approving reaction change no section.
SectionApprovalIndependent ==
    [][/\ last'.op = "approve_section" =>
            \A target \in Targets, section_ts \in 1..Len(slack) :
                cmd_approve(target[1], target[2], section_ts) =>
                    LET k == TargetThread(target[1], target[2])
                        i == CHOOSE i \in 1..Len(threads[k].sections) :
                                 threads[k].sections[i].ts = section_ts
                    IN threads' = [threads EXCEPT
                           ![k].sections[i].approved = TRUE,
                           ![k].sections[i].approved_by = MY_USER_ID]
       /\ \/ \A k \in DOMAIN threads :
                 threads'[k].sections = threads[k].sections
          \/ ~(\/ \E target \in Targets :
                     cmd_approve(target[1], target[2], NoTs)
               \/ \E item_ts \in 1..Len(slack), reactor \in Reactors :
                     handle_reaction("white_check_mark", item_ts, reactor,
                                     ThisChannel))]_vars

\* Every section of a plan has been approved and the thread is not.
AllSectionsApproved ==
    /\ last.op = "approve_section"
    /\ LET thread == threads[last.key]
       IN /\ thread.has_sections
          /\ \A i \in 1..Len(thread.sections) :
                /\ thread.sections[i].approved
                /\ thread.sections[i].approved_by = MY_USER_ID
          /\ ~thread.approved
          /\ thread.approved_by = None
          /\ thread.status = "awaiting_feedback"

\* C17: a reply event for a thread identifier that is no key of the store is
\* handled without failing: the store gets a thread under that identifier
\* with owner None, version 1, status "open", approved FALSE, no files, no
\* plan_versions, and the reply as its one feedback entry, of type
\* "feedback"; the other threads stay and the record is saved.
UnknownParentGetsPlaceholder ==
    [][\A ts \in 1..Len(slack) :
          LET event == slack[ts]
              k == event.thread_ts
          IN (~event.bot /\ k # NoTs /\ k \notin DOMAIN threads) =>
                /\ ENABLED handle_message(ts, FALSE, ThisChannel)
                /\ handle_message(ts, FALSE, ThisChannel) =>
                      /\ DOMAIN threads' = DOMAIN threads \cup {k}
                      /\ \A j \in DOMAIN threads : threads'[j] = threads[j]
                      /\ threads'[k] =
                            [ThreadRecord(None, k, 1, "open", {}, <<>>)
                                EXCEPT !.feedback =
                                    <<[user |-> event.user, ts |-> ts,
                                       text |-> event.text,
                                       type |-> "feedback"]>>]
                      /\ ~threads'[k].approved
                      /\ threads'[k].approved_by = None
                      /\ hasState'
                      /\ last'.op = "msg_reply" /\ last'.key = k]_vars

\* A placeholder holds a reply written by the author of the thread's
\* top-level message.
PlaceholderHoldsReply ==
    /\ last.op = "msg_reply"
    /\ threads[last.key].owner = None
    /\ threads[last.key].plan_versions = <<>>
    /\ Len(threads[last.key].feedback) = 1
    /\ threads[last.key].feedback[1].type = "feedback"
    /\ threads[last.key].feedback[1].user = slack[last.key].user

\* C18: no reply is dropped: a reply the listener has recorded in the
\* feedback of its thread is an entry of that thread's feedback in every
\* later state, whatever events follow.
NoReplyDropped ==
    [][\A k \in DOMAIN threads :
          \A i \in 1..Len(threads[k].feedback) :
              /\ k \in DOMAIN threads'
              /\ \E j \in 1..Len(threads'[k].feedback) :
                    threads'[k].feedback[j].ts = threads[k].feedback[i].ts]_vars

\* The pairs a conflict list reports for threads a and b, in either order.
ReportsOf(conflicts, a, b) ==
    {i \in 1..Len(conflicts) :
        {conflicts[i].ts_a, conflicts[i].ts_b} = {a, b}}

\* C19: find_conflicts reports exactly the unordered pairs of distinct
\* threads that are both unapproved and whose files intersect: each such pair
\* once, no other pair, and with each pair the intersection of the two files
\* sets in sorted order.
ConflictsAreOverlappingOpenPairs ==
    LET conflicts == find_conflicts(threads, order)
    IN /\ \A a, b \in DOMAIN threads :
             a # b =>
                 Cardinality(ReportsOf(conflicts, a, b)) =
                     IF /\ ~threads[a].approved
                        /\ ~threads[b].approved
                        /\ threads[a].files \cap threads[b].files # {}
                     THEN 1 ELSE 0
       /\ \A i \in 1..Len(conflicts) :
             LET c == conflicts[i]
             IN /\ c.ts_a \in DOMAIN threads
                /\ c.ts_b \in DOMAIN threads
                /\ c.ts_a # c.ts_b
                /\ {c.files[n] : n \in 1..Len(c.files)} =
                       threads[c.ts_a].files \cap threads[c.ts_b].files
                /\ Len(c.files) =
                       Cardinality(threads[c.ts_a].files
                                   \cap threads[c.ts_b].files)
                /\ \A n \in 1..Len(c.files) - 1 :
                       FileRank[c.files[n]] < FileRank[c.files[n + 1]]

\* Three threads with files in common, one of them approved: one pair is
\* reported, with the one file the two open threads share.
OneConflictOfThree ==
    /\ Cardinality(DOMAIN threads) = 3
    /\ \A k \in DOMAIN threads : "shared.py" \in threads[k].files
    /\ \E k \in DOMAIN threads : threads[k].approved
    /\ LET conflicts == find_conflicts(threads, order)
       IN /\ Len(conflicts) = 1
          /\ conflicts[1].files = <<"shared.py">>

\* C20: for threads a and b whose files overlap, once either has been marked
\* approved (by the approve command or by a reaction) no later find_conflicts
\* result reports the pair.
ApprovalExcludesPairForever ==
    \A a, b \in DOMAIN threads :
        {a, b} \in excluded =>
            ReportsOf(find_conflicts(threads, order), a, b) = {}

\* The last transport call of the last command run.
LastCall(o) == o.calls[Len(o.calls)]
\* The calls of cmd_create that only deliver the onboarding message.
OnboardingMethods == {"conversations_open", "chat_postMessage_dm"}

\* C21..C30
\* C24: a transport call is attempted once or twice; twice exactly when the
\* first attempt met a connection fault; it yields a response exactly when
\* its last attempt succeeded, so an API error on either attempt and a second
\* connection fault end the call, and with it the command, as a failure.
TransportAttempts ==
    \A i \in 1..Len(outcome.calls) :
        LET call == outcome.calls[i]
        IN /\ call.attempts \in {1, 2}
           /\ call.attempts = 2 <=> call.beh[1] = "fault"
           /\ call.ok <=> call.beh[call.attempts] = "ok"
           /\ ~call.ok => outcome.code = 1 /\ i = Len(outcome.calls)

\* A call was retried after a connection fault, met a second one and ended
\* the command.
SecondFaultSurfaced ==
    /\ outcome.calls # <<>>
    /\ LastCall(outcome).beh = <<"fault", "fault">>
    /\ LastCall(outcome).attempts = 2
    /\ ~LastCall(outcome).ok
    /\ outcome.code = 1

\* C22: a run of plan, reply, create or close that ends on a failed call
\* other than an onboarding call leaves the channel state and the session
\* link as they were.
FailedPostChangesNothing ==
    [][(/\ outcome'.cmd \in {"plan", "reply", "create", "close"}
        /\ outcome'.error = "transport"
        /\ LastCall(outcome').method \notin OnboardingMethods) =>
          UNCHANGED <<hasState, threads, order, chanStatus, session>>]_vars

\* A plan run has posted its anchor message and failed at a section: the
\* anchor is in the channel and no thread is recorded for it.
SectionPostFailed ==
    /\ outcome.cmd = "plan"
    /\ outcome.error = "transport"
    /\ Len(outcome.calls) = 2
    /\ outcome.calls[1].ok
    /\ hasState
    /\ Len(slack) \notin DOMAIN threads

\* C23: when the reaction of an approve run or an onboarding call of a create
\* run fails, the state saved before stays and the command exits with
\* success.
BestEffortSucceeds ==
    (/\ outcome.calls # <<>>
     /\ ~LastCall(outcome).ok
     /\ LastCall(outcome).method \in OnboardingMethods \cup {"reactions_add"}) =>
        /\ hasState
        /\ outcome.code = 0

\* C27: a run that ends with the validation failure (no plan text and no plan
\* file) has issued no transport call and has changed neither the workspace
\* nor the channel state nor the session link.
ValidationBeforeAnyCall ==
    [][outcome'.error = "validation" =>
          /\ outcome'.calls = <<>>
          /\ UNCHANGED <<created, slack, hasState, threads, order,
                         chanStatus, session>>]_vars

\* C26: a run that names the channel and no thread works on the operator's
\* thread when the operator owns exactly one, exits as not found when the
\* operator owns none, and exits as ambiguous, having listed every owned
\* thread, when the operator owns several; the two failures change nothing.
UnnamedThreadResolution ==
    [][outcome'.cmd \in {"reply", "approve", "sync"} =>
         /\ Cardinality(OwnedThreads) = 1 <=> outcome'.error = "none"
         /\ (outcome'.error = "none" /\ outcome'.cmd # "sync") =>
                last'.key \in OwnedThreads
         /\ OwnedThreads = {} <=> outcome'.error = "not_found"
         /\ Cardinality(OwnedThreads) >= 2 <=>
                (outcome'.error = "ambiguous" /\ outcome'.listed = OwnedThreads)
         /\ outcome'.error # "none" =>
                /\ outcome'.code = 1
                /\ outcome'.calls = <<>>
                /\ UNCHANGED <<slack, store_vars>>]_vars

\* A run has exited as ambiguous between two threads of the operator while
\* the channel also holds a collaborator's thread.
AmbiguousBetweenTwo ==
    /\ outcome.error = "ambiguous"
    /\ Cardinality(outcome.listed) = 2
    /\ outcome.listed = OwnedThreads
    /\ OwnedThreads # DOMAIN threads

\* C25: a reply, approve or sync run that exits as not found has exited with
\* failure, has issued no call and has changed neither the channel nor the
\* stored state; and a reply or approve run that went through worked on a
\* thread that was in the channel's threads when the run loaded the state.
NotFoundChangesNothing ==
    [][outcome'.cmd \in {"reply", "approve", "sync"} =>
         /\ outcome'.error = "not_found" =>
                /\ outcome'.code = 1
                /\ outcome'.calls = <<>>
                /\ UNCHANGED <<slack, store_vars>>
         /\ (outcome'.error = "none" /\ outcome'.cmd # "sync") =>
                last'.key \in DOMAIN threads]_vars

\* C28: the step that closes the channel leaves the threads mapping, with
\* every record in it, exactly as it was, and once the channel is closed no
\* step removes a thread from the mapping.
CloseKeepsThreads ==
    [][/\ (chanStatus # "closed" /\ chanStatus' = "closed") =>
              (threads' = threads /\ order' = order /\ hasState' = hasState)
       /\ chanStatus = "closed" =>
              \A k \in DOMAIN threads : k \in DOMAIN threads']_vars

\* A closed channel whose thread, with feedback recorded before the close,
\* has been approved after it.
ApprovedAfterClose ==
    /\ chanStatus = "closed"
    /\ last.op = "approve"
    /\ threads[last.key].feedback # <<>>

\* The lines of a text that are headings of level 1 to 3.
HeadingLines(plan) == {i \in 1..Len(plan) : IsHeading(plan[i])}

\* C29: for a text without a heading of level 1 to 3, parse_sections
\* returns one pair, with the empty heading and the text as it was given.
NoHeadingOnePairUnchanged ==
    (parsed.done /\ HeadingLines(parsed.plan) = {}) =>
        parsed.sections = <<[heading |-> BlankLine, body |-> parsed.plan]>>

\* The k-th heading line of a text.
NthHeading(plan, k) ==
    CHOOSE i \in HeadingLines(plan) :
        Cardinality({j \in HeadingLines(plan) : j < i}) = k - 1

\* The lines after line i up to the next heading or the end of the text.
LinesUnder(plan, i) ==
    LET later == {j \in HeadingLines(plan) : j > i}
        stop == IF later = {} THEN Len(plan) + 1
                ELSE CHOOSE j \in later : \A l \in later : j <= l
    IN SubSeq(plan, i + 1, stop - 1)

\* Lines without their surrounding blank (empty or whitespace-only) lines.
RECURSIVE WithoutBlankEnds(_)
WithoutBlankEnds(lines) ==
    IF lines = <<>> THEN <<BlankLine>>
    ELSE IF Head(lines) \in WhiteLines THEN WithoutBlankEnds(Tail(lines))
    ELSE IF lines[Len(lines)] \in WhiteLines
    THEN WithoutBlankEnds(SubSeq(lines, 1, Len(lines) - 1))
    ELSE lines

\* C30: for a text with a heading of level 1 to 3, parse_sections returns
\* one pair per such heading line, in order, holding the heading line as it
\* is and the lines under it without their surrounding blank lines; these
\* pairs are preceded by one pair with the empty heading exactly when some
\* line that is not blank precedes the first heading.
OnePairPerHeading ==
    (parsed.done /\ HeadingLines(parsed.plan) # {}) =>
        LET plan == parsed.plan
            n == Cardinality(HeadingLines(plan))
            preamble == SubSeq(plan, 1, NthHeading(plan, 1) - 1)
            leading ==
                IF \E i \in 1..Len(preamble) : preamble[i] \notin WhiteLines
                THEN <<[heading |-> BlankLine,
                        body |-> WithoutBlankEnds(preamble)]>>
                ELSE <<>>
            headed ==
                [k \in 1..n |->
                    [heading |-> plan[NthHeading(plan, k)],
                     body |-> WithoutBlankEnds(
                                  LinesUnder(plan, NthHeading(plan, k)))]]
        IN parsed.sections = leading \o headed

\* The ts of the feedback entries of a thread record.
EntryTs(thread) == {thread.feedback[i].ts : i \in 1..Len(thread.feedback)}

\* C21: a writer saves the record it loaded with its own update and nothing
\* else: every other thread is as it was loaded, and the thread it worked on
\* holds no feedback entry and no approval that was neither loaded nor its
\* own, whatever the other writer has saved since the load.
LaterWriterWins ==
    [][\A w \in Writers :
         (inflight[w].phase = "loaded" /\ inflight'[w].phase = "saved") =>
           LET snap == inflight[w].threads
               k == inflight[w].key
           IN /\ DOMAIN threads' = DOMAIN snap \cup {k}
              /\ \A j \in DOMAIN snap \ {k} : threads'[j] = snap[j]
              /\ k \in DOMAIN snap =>
                   /\ EntryTs(threads'[k]) \subseteq
                          EntryTs(snap[k]) \cup {inflight[w].ts}
                   /\ threads'[k].approved =>
                          snap[k].approved \/ inflight[w].op = "approve"]_vars

\* Both writers have saved, the command last; the feedback entry the
\* listener had saved in between is not in the record.
FeedbackEntryLost ==
    /\ inflight["listener"].phase = "saved"
    /\ inflight["cli"].phase = "saved"
    /\ last.op \in {"reply", "approve"}
    /\ inflight["listener"].key = last.key
    /\ slack[inflight["listener"].ts].thread_ts = last.key
    /\ inflight["listener"].ts \notin EntryTs(threads[last.key])

\* The entries of every feedback sequence of the threads in keys.
RECURSIVE EntriesIn(_, _)
EntriesIn(ths, keys) ==
    IF keys = {} THEN 0
    ELSE LET k == CHOOSE key \in keys : TRUE
         IN Len(ths[k].feedback) + EntriesIn(ths, keys \ {k})

\* The entries of type "feedback" among them.
RECURSIVE FeedbackIn(_, _)
FeedbackIn(ths, keys) ==
    IF keys = {} THEN 0
    ELSE LET k == CHOOSE key \in keys : TRUE
         IN Len(SelectSeq(ths[k].feedback, LAMBDA e : e.type = "feedback"))
            + FeedbackIn(ths, keys \ {k})

\* C31: a bootstrap run reports as thread count the number of thread
\* identifiers it added to the store and as feedback count the number of
\* entries it appended to the feedback sequences of those threads.
BootstrapCountsEntries ==
    [][outcome'.cmd = "bootstrap" =>
         LET added == DOMAIN threads' \ DOMAIN threads
         IN /\ outcome'.thread_count = Cardinality(added)
            /\ outcome'.feedback_count = EntriesIn(threads', added)]_vars

\* C31, amended: the feedback count is the number of entries of type
\* "feedback" appended; the revisions replayed into the same sequences are
\* not counted.
BootstrapCountsFeedback ==
    [][outcome'.cmd = "bootstrap" =>
         LET added == DOMAIN threads' \ DOMAIN threads
         IN /\ outcome'.thread_count = Cardinality(added)
            /\ outcome'.feedback_count = FeedbackIn(threads', added)]_vars

\* A run has added one thread and has replayed a revision and a feedback
\* entry into it; it reports one feedback entry.
BootstrapReplayedBothKinds ==
    /\ outcome.cmd = "bootstrap"
    /\ outcome.thread_count = 1
    /\ outcome.feedback_count = 1
    /\ \E k \in DOMAIN threads :
          /\ Len(threads[k].feedback) = 2
          /\ \E i \in 1..2 : threads[k].feedback[i].type = "revision"
          /\ \E i \in 1..2 : threads[k].feedback[i].type = "feedback"

\* C32: handle_message changes nothing for an event that carries a bot_id or
\* a subtype, or whose channel name cannot be resolved or does not start
\* with wg_: no step that changes the state is the handling of such an
\* event.
IgnoredEventChangesNothing ==
    [][\/ slack' # slack
       \/ \A ts \in 1..Len(slack), shape \in EventShapes :
            (slack[ts].bot \/ shape[1] \/ shape[2] \in {None, GeneralChannel})
               => ~handle_message(ts, shape[1], shape[2])]_vars

\* The bot has replied in a recorded thread; its reply is not among the
\* thread's feedback entries, while a collaborator's reply is.
BotReplyNotRecorded ==
    \E b \in 1..Len(slack), c \in 1..Len(slack) :
        /\ slack[b].bot /\ ~slack[c].bot /\ b < c
        /\ slack[b].thread_ts \in DOMAIN threads
        /\ slack[c].thread_ts = slack[b].thread_ts
        /\ last = LastOp("msg_reply", slack[b].thread_ts)
        /\ EntryTs(threads[slack[b].thread_ts]) = {c}

\* C33: every thread record carries the key it is stored under as its ts.
RecordCarriesItsKey ==
    \A k \in DOMAIN threads : threads[k].ts = k

\* A placeholder made by the listener and a plan posted by the operator are
\* stored side by side.
PlaceholderNextToPlan ==
    /\ \E k \in DOMAIN threads :
          threads[k].owner = None /\ threads[k].feedback # <<>>
    /\ \E k \in DOMAIN threads : threads[k].owner = MY_USER_ID

\* C34: in every thread with sections, section_index has exactly the message
\* identifiers of the sections as keys and maps the identifier of each
\* section to its position in sections (counted from 0, as the code counts).
SectionIndexMatchesSections ==
    \A k \in DOMAIN threads :
        threads[k].has_sections =>
            LET thread == threads[k]
            IN /\ DOMAIN thread.section_index =
                    {thread.sections[i].ts : i \in 1..Len(thread.sections)}
               /\ \A i \in 1..Len(thread.sections) :
                    thread.section_index[thread.sections[i].ts] = i - 1

\* A plan in sections has been revised and its second section has then been
\* approved through the index.
SectionApprovedAfterRevision ==
    /\ last.op = "approve_section"
    /\ threads[last.key].version = 2
    /\ Len(threads[last.key].sections) = 2
    /\ ~threads[last.key].sections[1].approved
    /\ threads[last.key].sections[2].approved

\* The message identifiers of the sections of the stored plans.
SectionTsOf(ths) ==
    UNION {DOMAIN ths[k].section_index :
             k \in {j \in DOMAIN ths : ths[j].has_sections}}

ApprovedStatusHasApprover ==
    \A k \in DOMAIN threads :
        threads[k].status = "approved" =>
            /\ threads[k].approved
            /\ threads[k].approved_by # None

\* One plan stands approved while another, approved and then revised, keeps
\* approved set under the status "awaiting_feedback": the converse fails.
ApprovedNextToRevisedAfterApproval ==
    \E k1, k2 \in DOMAIN threads :
        /\ threads[k1].status = "approved"
        /\ threads[k1].approved
        /\ threads[k1].approved_by # None
        /\ threads[k2].status = "awaiting_feedback"
        /\ threads[k2].approved
        /\ threads[k2].version = 2

\* C38: in every thread with a version history, the version numbers of
\* plan_versions go up by one from entry to entry and the last one is the
\* thread's version.
VersionHistoryIsConsecutive ==
    \A k \in DOMAIN threads :
        LET plan_versions == threads[k].plan_versions
            n == Len(plan_versions)
        IN n > 0 =>
            /\ \A i \in 1..(n - 1) :
                  plan_versions[i + 1].version = plan_versions[i].version + 1
            /\ plan_versions[n].version = threads[k].version

\* A thread has gone through two revisions: three entries, version 3.
ThreeVersionsStored ==
    \E k \in DOMAIN threads :
        /\ Len(threads[k].plan_versions) = 3
        /\ threads[k].version = 3

\* The replies to message k in the channel, oldest first.
RepliesTo(s, k) ==
    SelectSeq(Ascending(Len(s)), LAMBDA i : s[i].thread_ts = k)

\* C36: a thread the bootstrap creates holds one feedback entry per reply
\* to its message, in order, on whatever page the reply was listed, and none
\* for the message itself; created from a message without replies it has
\* version 1, one plan_versions entry and no feedback.
BootstrapReplaysRepliesOnly ==
    [][last'.op = "bootstrap" =>
        \A k \in DOMAIN threads' \ DOMAIN threads :
            LET replies == RepliesTo(slack, k)
                thread == threads'[k]
            IN /\ Len(thread.feedback) = Len(replies)
               /\ \A i \in 1..Len(replies) :
                     /\ thread.feedback[i].ts = replies[i]
                     /\ thread.feedback[i].ts # k
               /\ replies = <<>> =>
                     /\ thread.version = 1
                     /\ Len(thread.plan_versions) = 1
                     /\ thread.feedback = <<>>]_vars

\* One bootstrap has created a thread from a message without replies and a
\* thread whose replies were listed on more than one page.
BootstrapReadSecondPage ==
    /\ outcome.cmd = "bootstrap"
    /\ outcome.thread_count >= 2
    /\ \E k1, k2 \in DOMAIN threads :
          /\ RepliesTo(slack, k1) = <<>>
          /\ threads[k1].version = 1
          /\ threads[k1].feedback = <<>>
          /\ Len(conversations_replies(slack, k2)) >= 2
          /\ Len(threads[k2].feedback) = Len(RepliesTo(slack, k2))

\* C35: a close that archives the channel removes the session link exactly
\* when the link points to the channel being closed, and leaves a link to
\* another channel as it was; a close that exits before the archive leaves
\* the link alone.
CloseUnlinksOwnChannelOnly ==
    [][outcome'.cmd = "close" =>
        IF outcome'.code = 0
        THEN /\ (session # NoSession /\ session' = NoSession)
                    <=> session.channel = ThisChannel
             /\ session.channel # ThisChannel => session' = session
        ELSE session' = session]_vars

\* The channel has been closed while the working directory was linked to
\* another channel, and the link is still there.
ClosedWithForeignLink ==
    /\ outcome.cmd = "close"
    /\ outcome.code = 0
    /\ chanStatus = "closed"
    /\ session.channel = OtherChannel

\* The threads that find_conflicts reports in some pair.
ReportedThreads(conflicts) ==
    UNION {{conflicts[i].ts_a, conflicts[i].ts_b} : i \in 1..Len(conflicts)}

\* Thread k is excluded from find_conflicts: whatever files it declares, no
\* pair that find_conflicts reports contains it.
ExcludedFromConflicts(ths, ord, k) ==
    \A files \in SUBSET Files :
        k \notin ReportedThreads(
                    find_conflicts([ths EXCEPT ![k].files = files], ord))

\* C40: a thread that was approved and then revised by its owner (status
\* "awaiting_feedback", approved still set) is excluded from find_conflicts
\* in the state every step leads to, whatever files it declares.
RevisedApprovalStaysExcluded ==
    [][\A k \in DOMAIN threads :
          (/\ threads[k].approved
           /\ threads[k].status = "awaiting_feedback"
           /\ threads[k].owner = MY_USER_ID)
          => /\ k \in DOMAIN threads'
             /\ ExcludedFromConflicts(threads', order', k)]_vars

====
